---- MODULE Spec2Model ----
(***************************************************************************)
(* The chat pipeline of the emotions backend:                              *)
(*   POST /chat        handleChatRequest -> analyzeUserIntent ->           *)
(*                     chat_messages insert -> handleSmartRequest ->       *)
(*                     handleSimpleRequest | handleRequest                 *)
(*   GET /chat/history getChatHistory                                      *)
(* Every action is one continuation of an async handler: it starts when    *)
(* the awaited call settles and runs up to the next await.                 *)
(***************************************************************************)
EXTENDS Integers, Sequences, FiniteSets, TLC

(***************************************************************************)
(* Bounds of the model.                                                    *)
(***************************************************************************)
MaxTicks == 1
TickHours == 8
MaxPeriodValue == 2

(***************************************************************************)
(* Calendar.  A date is <<year, month, day>>; dayjs arithmetic on it.      *)
(***************************************************************************)
IsLeap(y) == (y % 4 = 0 /\ y % 100 # 0) \/ y % 400 = 0

DaysInMonth(y, m) ==
    IF m = 2 THEN (IF IsLeap(y) THEN 29 ELSE 28)
    ELSE IF m \in {4, 6, 9, 11} THEN 30 ELSE 31

PrevDay(d) ==
    IF d[3] > 1 THEN <<d[1], d[2], d[3] - 1>>
    ELSE IF d[2] > 1 THEN <<d[1], d[2] - 1, DaysInMonth(d[1], d[2] - 1)>>
    ELSE <<d[1] - 1, 12, 31>>

NextDay(d) ==
    IF d[3] < DaysInMonth(d[1], d[2]) THEN <<d[1], d[2], d[3] + 1>>
    ELSE IF d[2] < 12 THEN <<d[1], d[2] + 1, 1>>
    ELSE <<d[1] + 1, 1, 1>>

RECURSIVE SubtractDays(_, _)
SubtractDays(d, n) ==
    IF n < d[3] THEN <<d[1], d[2], d[3] - n>>
    ELSE SubtractDays(PrevDay(<<d[1], d[2], 1>>), n - d[3])

Min(a, b) == IF a < b THEN a ELSE b

\* dayjs .subtract(n, 'month'): move the month, clamp the day to the month's length
SubtractMonths(d, n) ==
    LET k  == d[1] * 12 + (d[2] - 1) - n
        y  == k \div 12
        m  == (k % 12) + 1
    IN  <<y, m, Min(d[3], DaysInMonth(y, m))>>

\* dayjs .subtract(n, 'year'): move the year, clamp Feb 29
SubtractYears(d, n) ==
    <<d[1] - n, d[2], Min(d[3], DaysInMonth(d[1] - n, d[2]))>>

\* .format('YYYY-MM-DD'): a string whose lexicographic order is the calendar
\* order; encoded as the number YYYYMMDD
FormatDate(d) == d[1] * 10000 + d[2] * 100 + d[3]

\* null / absent date string of an intent (falsy under ||)
NullDate == 0

(***************************************************************************)
(* The clock.  An instant is a UTC date and hour; a zone shifts it.        *)
(***************************************************************************)
KoreaOffset == 9

\* the zone of the server process (dayjs() without .tz uses it)
ServerZones == {0, KoreaOffset}

ZoneDate(t, off) == IF t.hour + off >= 24 THEN NextDay(t.date) ELSE t.date

\* dayjs().tz('Asia/Seoul')
koreaTime(t) == ZoneDate(t, KoreaOffset)

\* 02:00 UTC is the same day in Seoul, 16:00 UTC is already the next day
StartInstants ==
    { [date |-> <<2024, 3, 31>>, hour |-> h] : h \in {2, 16} }

\* instants for the date arithmetic: month ends, a leap day, a year end
FetchInstants ==
    { [date |-> d, hour |-> h] :
        d \in {<<2024, 3, 31>>, <<2024, 2, 29>>, <<2024, 12, 31>>, <<2024, 1, 1>>}, h \in {2, 16} }

AdvanceClock(t) ==
    IF t.hour + TickHours >= 24
    THEN [date |-> NextDay(t.date), hour |-> t.hour + TickHours - 24]
    ELSE [date |-> t.date, hour |-> t.hour + TickHours]

(***************************************************************************)
(* JavaScript values of a request body / query.                            *)
(***************************************************************************)
JsUndefined == [type |-> "undefined", text |-> <<>>]
JsNumber    == [type |-> "number", text |-> <<>>]
JsString(t) == [type |-> "string", text |-> t]

\* Words of a message text.  " " is white space; the others stand for
\*   annyeong 안녕   oneul 오늘   eoje 어제   ju 주   dal 달   wol 월
\*   bunseok 분석    chateu 차트  geuraepeu 그래프  girok 기록
\*   deiteo 데이터   gibun 기분   byeonhwa 변화
Whitespace == " "

RECURSIVE TrimStart(_)
TrimStart(t) ==
    IF t # <<>> /\ Head(t) = Whitespace THEN TrimStart(Tail(t)) ELSE t

RECURSIVE TrimEnd(_)
TrimEnd(t) ==
    IF t # <<>> /\ t[Len(t)] = Whitespace THEN TrimEnd(SubSeq(t, 1, Len(t) - 1)) ELSE t

\* String.prototype.trim
Trim(t) == TrimEnd(TrimStart(t))

\* String.prototype.toLowerCase, word by word
ToLowerWord(w) ==
    IF w = "TODAY" THEN "today"
    ELSE IF w = "YESTERDAY" THEN "yesterday"
    ELSE IF w = "WEEK" THEN "week"
    ELSE IF w = "MONTH" THEN "month"
    ELSE IF w = "VS" THEN "vs"
    ELSE w

toLowerCase(t) == [i \in 1..Len(t) |-> ToLowerWord(t[i])]

\* String.prototype.includes
includes(t, w) == \E i \in 1..Len(t) : t[i] = w

(***************************************************************************)
(* Intent records (intentAnalyze.js).  "" is null for the string fields,   *)
(* 0 is null for periodValue, NullDate is null for the two dates.          *)
(***************************************************************************)
\* the yesterday marker is tested before the today marker
fallbackTimeRange_YesterdayFirst(hasToday, hasYesterday, hasWeek, hasMonth) ==
    IF hasYesterday THEN "yesterday"
    ELSE IF hasToday THEN "today"
    ELSE IF hasWeek THEN "last_week"
    ELSE IF hasMonth THEN "last_month"
    ELSE "recent"

\* let timeRange = 'recent'; if (hasToday) ... else if (hasMonth) ...
fallbackTimeRange(hasToday, hasYesterday, hasWeek, hasMonth) ==
    IF hasToday THEN "today"
    ELSE IF hasYesterday THEN "yesterday"
    ELSE IF hasWeek THEN "last_week"
    ELSE IF hasMonth THEN "last_month"
    ELSE "recent"

\* the mention of a feeling is not looked at
fallbackIsSimpleGreeting_NoFeeling(hasRecords, hasAnalysis, hasFeeling) ==
    ~hasRecords /\ ~hasAnalysis

\* !hasRecords && !hasAnalysis && !lowerMessage.includes('기분')
fallbackIsSimpleGreeting(hasRecords, hasAnalysis, hasFeeling) ==
    ~hasRecords /\ ~hasAnalysis /\ ~hasFeeling

simpleFallbackAnalysis(message) ==
    LET lowerMessage == toLowerCase(message)
        hasAnalysis  == includes(lowerMessage, "bunseok") \/ includes(lowerMessage, "chateu")
                            \/ includes(lowerMessage, "geuraepeu")
        hasRecords   == includes(lowerMessage, "girok") \/ includes(lowerMessage, "deiteo")
        hasToday     == includes(lowerMessage, "oneul") \/ includes(lowerMessage, "today")
        hasYesterday == includes(lowerMessage, "eoje") \/ includes(lowerMessage, "yesterday")
        hasWeek      == includes(lowerMessage, "ju") \/ includes(lowerMessage, "week")
        hasMonth     == includes(lowerMessage, "dal") \/ includes(lowerMessage, "wol")
                            \/ includes(lowerMessage, "month")
    IN  [ isAnalysisRequest |-> hasAnalysis,
          needsRecords      |-> hasRecords \/ hasAnalysis,
          needsChatHistory  |-> ~hasAnalysis /\ ~hasRecords,
          needsChart        |-> hasAnalysis,
          isSimpleGreeting  |-> fallbackIsSimpleGreeting(hasRecords, hasAnalysis,
                                                         includes(lowerMessage, "gibun")),
          timeRange         |-> fallbackTimeRange(hasToday, hasYesterday, hasWeek, hasMonth),
          topic             |-> IF hasAnalysis THEN "bunseok"
                                ELSE IF hasRecords THEN "girok" ELSE "",
          analysisType      |-> IF hasAnalysis THEN "specific" ELSE "",
          periodType        |-> "",
          periodValue       |-> 0,
          fromDate          |-> NullDate,
          toDate            |-> NullDate ]

\* the intent of a request that has not been classified yet
NoIntent ==
    [ isAnalysisRequest |-> FALSE, needsRecords |-> FALSE, needsChatHistory |-> FALSE,
      needsChart |-> FALSE, isSimpleGreeting |-> FALSE, timeRange |-> "", topic |-> "",
      analysisType |-> "", periodType |-> "", periodValue |-> 0,
      fromDate |-> NullDate, toDate |-> NullDate ]

\* a week is taken for a day
calculateDateRange_WeekAsDay(periodType, periodValue, t, zone) ==
    LET today == ZoneDate(t, zone)
        to    == FormatDate(today)
    IN  IF periodType = "day" \/ periodType = "week"
        THEN [ok |-> TRUE, fromDate |-> FormatDate(SubtractDays(today, periodValue)), toDate |-> to]
        ELSE IF periodType = "month"
        THEN [ok |-> TRUE, fromDate |-> FormatDate(SubtractMonths(today, periodValue)), toDate |-> to]
        ELSE IF periodType = "year"
        THEN [ok |-> TRUE, fromDate |-> FormatDate(SubtractYears(today, periodValue)), toDate |-> to]
        ELSE [ok |-> FALSE, fromDate |-> NullDate, toDate |-> NullDate]

\* calculateDateRange: null (ok = FALSE) for an unrecognised periodType;
\* dayjs() without a zone is the server's local date
calculateDateRange(periodType, periodValue, t, zone) ==
    LET today == ZoneDate(t, zone)
        to    == FormatDate(today)
    IN  IF periodType = "day"
        THEN [ok |-> TRUE, fromDate |-> FormatDate(SubtractDays(today, periodValue)), toDate |-> to]
        ELSE IF periodType = "week"
        THEN [ok |-> TRUE, fromDate |-> FormatDate(SubtractDays(today, 7 * periodValue)), toDate |-> to]
        ELSE IF periodType = "month"
        THEN [ok |-> TRUE, fromDate |-> FormatDate(SubtractMonths(today, periodValue)), toDate |-> to]
        ELSE IF periodType = "year"
        THEN [ok |-> TRUE, fromDate |-> FormatDate(SubtractYears(today, periodValue)), toDate |-> to]
        ELSE [ok |-> FALSE, fromDate |-> NullDate, toDate |-> NullDate]

\* the default period is a week
OrMonth_Week(periodType) == IF periodType = "" THEN "week" ELSE periodType

\* x || 'month' and x || 1
OrMonth(periodType) == IF periodType = "" THEN "month" ELSE periodType
OrOne(periodValue)  == IF periodValue = 0 THEN 1 ELSE periodValue

\* getData with the custom branch tested first
getDataWindow_CustomFirst(intent, t, zone) ==
    IF intent.analysisType = "custom" /\ intent.fromDate # NullDate /\ intent.toDate # NullDate
    THEN [threw |-> FALSE, fromDate |-> intent.fromDate, toDate |-> intent.toDate]
    ELSE IF intent.timeRange = "today"
    THEN [threw |-> FALSE, fromDate |-> FormatDate(koreaTime(t)), toDate |-> FormatDate(koreaTime(t))]
    ELSE IF intent.timeRange = "yesterday"
    THEN [threw |-> FALSE, fromDate |-> FormatDate(SubtractDays(koreaTime(t), 1)),
                           toDate   |-> FormatDate(SubtractDays(koreaTime(t), 1))]
    ELSE [threw |-> TRUE, fromDate |-> NullDate, toDate |-> NullDate]

\* getData without the custom branch: the period branch serves custom intents
getDataWindow_NoCustom(intent, t, zone) ==
    LET range == calculateDateRange(OrMonth(intent.periodType), OrOne(intent.periodValue), t, zone)
    IN  IF intent.timeRange = "today"
        THEN [threw |-> FALSE, fromDate |-> FormatDate(koreaTime(t)), toDate |-> FormatDate(koreaTime(t))]
        ELSE IF intent.timeRange = "yesterday"
        THEN [threw |-> FALSE, fromDate |-> FormatDate(SubtractDays(koreaTime(t), 1)),
                               toDate   |-> FormatDate(SubtractDays(koreaTime(t), 1))]
        ELSE IF ~range.ok
        THEN [threw |-> TRUE, fromDate |-> NullDate, toDate |-> NullDate]
        ELSE [threw |-> FALSE, fromDate |-> range.fromDate, toDate |-> range.toDate]

\* The window of getData.  threw = TRUE is the TypeError of reading
\* .fromDate / .toDate of the null that calculateDateRange returned.
getDataWindow(intent, t, zone) ==
    LET range == calculateDateRange(OrMonth(intent.periodType), OrOne(intent.periodValue), t, zone)
    IN  IF intent.timeRange = "today"
        THEN [threw |-> FALSE, fromDate |-> FormatDate(koreaTime(t)), toDate |-> FormatDate(koreaTime(t))]
        ELSE IF intent.timeRange = "yesterday"
        THEN [threw |-> FALSE, fromDate |-> FormatDate(SubtractDays(koreaTime(t), 1)),
                               toDate   |-> FormatDate(SubtractDays(koreaTime(t), 1))]
        ELSE IF intent.analysisType = "custom" /\ intent.fromDate # NullDate /\ intent.toDate # NullDate
        THEN [threw |-> FALSE, fromDate |-> intent.fromDate, toDate |-> intent.toDate]
        ELSE IF (intent.fromDate = NullDate \/ intent.toDate = NullDate) /\ ~range.ok
        THEN [threw |-> TRUE, fromDate |-> NullDate, toDate |-> NullDate]
        ELSE [threw |-> FALSE,
              fromDate |-> IF intent.fromDate # NullDate THEN intent.fromDate ELSE range.fromDate,
              toDate   |-> IF intent.toDate # NullDate THEN intent.toDate ELSE range.toDate]

(***************************************************************************)
(* Texts, chart descriptors and HTTP responses.                            *)
(***************************************************************************)
\* the fixed texts of chatService.js
NoRecordsMessage      == "no records for this period"
SimpleFallbackMessage == "please try again"
AnalysisFallbackMessage == "analysis cannot be generated"
\* contents the external model may return; "" is an absent or empty content
ModelContents == {"", "model text"}
\* JavaScript null / undefined where a text is expected
NullText      == "null"
UndefinedText == "undefined"

\* labels and values are data.labels and data.datasets[0].data of a chart
NullChart    == [type |-> "null",    noData |-> FALSE, hasData |-> FALSE,
                 labels |-> <<>>, values |-> <<>>]
NoDataChart  == [type |-> "message", noData |-> TRUE,  hasData |-> FALSE,
                 labels |-> <<>>, values |-> <<>>]

\* dateRange: null
NoDisplay ==
    [kind |-> "null", fromDate |-> NullDate, toDate |-> NullDate, periodValue |-> 0, periodType |-> ""]

ErrorResponse(status, error) ==
    [status |-> status, error |-> error, aiResponse |-> UndefinedText,
     analysisType |-> "", dateRange |-> NoDisplay,
     isAnalysis |-> FALSE, chartData |-> NullChart]

\* the dateRange of a reply: one formatted day, `${fromDate} ~ ${toDate}`, or
\* the words for the last periodValue periodType
Display(kind, fromDate, toDate, periodValue, periodType) ==
    [kind |-> kind, fromDate |-> fromDate, toDate |-> toDate,
     periodValue |-> periodValue, periodType |-> periodType]

\* getDateRangeDisplay: the day in Seoul for a 'specific' intent with a
\* timeRange (yesterday's for 'yesterday', today's for any other), else the
\* two dates of the intent when both are set, else the period words
getDateRangeDisplay(intent, t) ==
    IF intent.analysisType = "specific" /\ intent.timeRange # ""
    THEN IF intent.timeRange = "yesterday"
         THEN Display("day", FormatDate(SubtractDays(koreaTime(t), 1)),
                             FormatDate(SubtractDays(koreaTime(t), 1)), 0, "")
         ELSE Display("day", FormatDate(koreaTime(t)), FormatDate(koreaTime(t)), 0, "")
    ELSE IF intent.fromDate # NullDate /\ intent.toDate # NullDate
    THEN Display("pair", intent.fromDate, intent.toDate, 0, "")
    ELSE Display("recent", NullDate, NullDate, OrOne(intent.periodValue), OrMonth(intent.periodType))

ReplyResponse(aiResponse, analysisType, dateRange, isAnalysis, chartData) ==
    [status |-> 200, error |-> "", aiResponse |-> aiResponse,
     analysisType |-> analysisType, dateRange |-> dateRange,
     isAnalysis |-> isAnalysis, chartData |-> chartData]

(***************************************************************************)
(* Inputs.                                                                 *)
(***************************************************************************)
Reqs == {"r1", "r2"}

\* message fields of POST /chat bodies
MessageInputs ==
    { JsUndefined, JsNumber, JsString(<<>>), JsString(<<" ">>), JsString(<<" ", " ">>),
      JsString(<<"annyeong">>),
      JsString(<<" ", "oneul", "girok", " ">>),
      JsString(<<"eoje", "bunseok", "byeonhwa">>),
      JsString(<<"TODAY", "chateu">>) }

\* user_id fields: absent, empty, a real user
UserIdInputs == { JsUndefined, JsString(<<>>), JsString(<<"u1">>) }

\* dates an external model may put into an intent
ModelDates == { NullDate, 20240315, 20240331 }

\* every intent the external model may return over the modelled field values
IntentSpace ==
    [ isAnalysisRequest : {TRUE}, needsRecords : {TRUE}, needsChatHistory : {FALSE},
      needsChart : {TRUE}, isSimpleGreeting : {FALSE},
      timeRange : {"today", "yesterday", "recent", "custom", ""},
      topic : {""},
      analysisType : {"period", "custom", "specific", ""},
      periodType : {"day", "week", "month", "year", "quarter", ""},
      periodValue : 0..MaxPeriodValue,
      fromDate : ModelDates, toDate : ModelDates ]

ModelIntent(ar, nr, nc, tr, at, pt, pv, fd, td) ==
    [ isAnalysisRequest |-> ar, needsRecords |-> nr, needsChatHistory |-> FALSE,
      needsChart |-> nc, isSimpleGreeting |-> FALSE, timeRange |-> tr, topic |-> "",
      analysisType |-> at, periodType |-> pt, periodValue |-> pv,
      fromDate |-> fd, toDate |-> td ]

\* the replies of the classification call used in the pipeline specification
ModelIntents ==
    { ModelIntent(FALSE, FALSE, FALSE, "recent", "", "", 0, NullDate, NullDate),
      ModelIntent(TRUE, TRUE, TRUE, "today", "specific", "", 0, 20240315, 20240331),
      ModelIntent(TRUE, TRUE, TRUE, "yesterday", "custom", "day", 1, 20240315, 20240331),
      ModelIntent(TRUE, TRUE, TRUE, "custom", "custom", "", 0, 20240315, 20240331),
      ModelIntent(TRUE, TRUE, FALSE, "custom", "custom", "", 0, 20240315, NullDate),
      ModelIntent(TRUE, TRUE, TRUE, "recent", "period", "day", MaxPeriodValue, NullDate, NullDate),
      ModelIntent(TRUE, FALSE, TRUE, "last_week", "period", "week", 1, NullDate, NullDate),
      ModelIntent(FALSE, TRUE, TRUE, "recent", "period", "month", 1, NullDate, NullDate),
      ModelIntent(TRUE, TRUE, TRUE, "recent", "period", "year", 1, NullDate, 20240331),
      ModelIntent(TRUE, TRUE, TRUE, "recent", "period", "quarter", 1, NullDate, NullDate) }

(***************************************************************************)
(* State.                                                                  *)
(***************************************************************************)
VARIABLES
    now,            \* the current instant (UTC date and hour)
    ticks,          \* how often the clock has advanced
    serverZone,     \* UTC offset of the server process
    active,         \* the POST /chat requests that may arrive
    req,            \* per POST /chat request: position, locals, calls made, responses sent
    hist,           \* the GET /chat/history request
    chat_messages,  \* table chat_messages, in created_at order
    records,        \* table records, per user in date order
    saved_charts,   \* table saved_charts, in created_at order
    probe           \* a direct call of one exported function: arguments and result

vars == <<now, ticks, serverZone, active, req, hist, chat_messages, records, saved_charts, probe>>

NoRange == [ok |-> FALSE, fromDate |-> NullDate, toDate |-> NullDate]

\* no function is called directly
NoProbe ==
    [ fn |-> "none", called |-> FALSE, question |-> <<>>, emotionData |-> <<>>,
      periodType |-> "", periodValue |-> 0,
      chartType |-> "", validData |-> <<>>, chart |-> NullChart, range |-> NoRange ]

NoWindow == [threw |-> FALSE, fromDate |-> NullDate, toDate |-> NullDate]
NoUpdate == [state |-> "none", ai_answer |-> UndefinedText]

InitReq ==
    [ pc |-> "idle", message |-> JsUndefined, body_user_id |-> JsUndefined,
      user_id |-> <<>>, trimmed |-> <<>>,
      intent |-> NoIntent, intentIsNull |-> FALSE, path |-> "none", insertError |-> "unset", failed |-> {}, needsData |-> FALSE, window |-> NoWindow, rows |-> <<>>,
      aiResponse |-> UndefinedText, chartData |-> NullChart,
      periodStart |-> NullDate, periodEnd |-> NullDate,
      deleteCount |-> 0, idsToDelete |-> {}, cleanup |-> "none",
      trace |-> <<>>, responses |-> <<>>, update |-> NoUpdate ]

InitHist == [ pc |-> "idle", user_id |-> JsUndefined, trace |-> <<>>, responses |-> <<>> ]

(***************************************************************************)
(* handleChatRequest                                                       *)
(***************************************************************************)
\* the check without the trim
trimmedOf_NoTrim(message) == IF message.type = "string" THEN message.text ELSE <<>>

\* const trimmed = typeof message === 'string' ? message.trim() : ''
trimmedOf(message) == IF message.type = "string" THEN Trim(message.text) ELSE <<>>

\* const { user_id = 'test_user' } = req.body
userIdOf(user_id) == IF user_id.type = "undefined" THEN <<"test_user">> ELSE user_id.text

\* replies of the classification call: the call throws, the content is not
\* JSON, the content is the JSON text null, or the content is a JSON object
\* (with or without code fences)
IntentReplies ==
    { [kind |-> "throw", intent |-> NoIntent], [kind |-> "malformed", intent |-> NoIntent],
      [kind |-> "null", intent |-> NoIntent] }
        \cup { [kind |-> "json", intent |-> i] : i \in ModelIntents }

\* the reply went through JSON.parse
Parses(reply) == reply.kind \in {"json", "null"}

\* return JSON.parse(content.trim()), or the fallback from the catch; the
\* fields of a null result are read as absent
analyzeUserIntent(message, reply) ==
    IF Parses(reply) THEN reply.intent ELSE simpleFallbackAnalysis(message)

\* replies of the needs-data call
NeedsDataReplies == {"throw", "malformed", "true", "false", "absent"}

checkIfNeedsData(reply, intent) ==
    IF reply \in {"throw", "malformed"}
    THEN intent.needsRecords \/ intent.isAnalysisRequest
    ELSE reply = "true"

\* the insert error is ignored
InsertAborts_Ignored(insertError) == FALSE

\* if (insertError) return res.status(500)...
InsertAborts(insertError) == insertError

\* the response goes out twice
Send_Twice(r, response) == Append(Append(req[r].responses, response), response)

\* res.status(...).json(...)
Send(r, response) == Append(req[r].responses, response)

\* POST /chat arrives: validation, then the classification call is issued
handleChatRequest(r, message, user_id) ==
    /\ r \in active
    /\ req[r].pc = "idle"
    /\ LET trimmed == trimmedOf(message)
       IN  IF trimmed = <<>>
           THEN req' = [req EXCEPT ![r] = [@ EXCEPT
                    !.pc = "done", !.message = message, !.body_user_id = user_id,
                    !.user_id = userIdOf(user_id),
                    !.trace = Append(@, "res"),
                    !.responses = Send(r, ErrorResponse(400, "Message is required"))]]
           ELSE req' = [req EXCEPT ![r] = [@ EXCEPT
                    !.pc = "intent", !.message = message, !.body_user_id = user_id,
                    !.user_id = userIdOf(user_id),
                    !.trimmed = trimmed,
                    !.trace = Append(@, "call intent")]]
    /\ UNCHANGED <<probe, now, ticks, serverZone, active, hist, chat_messages, records, saved_charts>>

\* the classification call settles; the chat_messages insert is issued
IntentReturns(r, reply) ==
    /\ req[r].pc = "intent"
    /\ req' = [req EXCEPT ![r] = [@ EXCEPT
            !.pc = "insert",
            !.intent = analyzeUserIntent(req[r].trimmed, reply),
            !.intentIsNull = (reply.kind = "null"),
            !.failed = IF Parses(reply) THEN @ ELSE @ \cup {"intent"},
            !.trace = Append(@, "insert chat_messages")]]
    /\ UNCHANGED <<probe, now, ticks, serverZone, active, hist, chat_messages, records, saved_charts>>

\* handleRequest up to its first await: getData computes the window and
\* issues the records query, or throws into handleRequest's catch
StartHandleRequest(r, rq) ==
    LET window == IF rq.intentIsNull
                  THEN [threw |-> TRUE, fromDate |-> NullDate, toDate |-> NullDate]
                  ELSE getDataWindow(rq.intent, now, serverZone)
    IN  IF window.threw
        THEN [rq EXCEPT !.pc = "done", !.path = "data", !.window = window,
                  !.trace = Append(@, "res"),
                  !.responses = Append(@, ErrorResponse(500, "request processing error"))]
        ELSE [rq EXCEPT !.pc = "fetch", !.path = "data", !.window = window,
                  !.trace = Append(@, "select records")]

\* handleSimpleRequest up to its await: the reply call is issued
StartHandleSimpleRequest(r, rq) ==
    [rq EXCEPT !.pc = "simple", !.path = "simple", !.trace = Append(@, "call reply")]

\* the insert settles: abort with 500, or handleSmartRequest issues the needs-data call
InsertReturns(r, insertError) ==
    /\ req[r].pc = "insert"
    /\ IF InsertAborts(insertError)
       THEN /\ req' = [req EXCEPT ![r] = [@ EXCEPT
                    !.pc = "done", !.insertError = "error",
                    !.trace = Append(@, "res"),
                    !.responses = Send(r, ErrorResponse(500, "message save failed"))]]
            /\ UNCHANGED chat_messages
       ELSE /\ req' = [req EXCEPT ![r] = [@ EXCEPT
                    !.pc = "needsData",
                    !.insertError = IF insertError THEN "error" ELSE "null",
                    !.trace = Append(@, "call needsData")]]
            /\ chat_messages' =
                 IF insertError THEN chat_messages
                 ELSE Append(chat_messages,
                        [id |-> r, user_id |-> req[r].user_id, user_chat |-> req[r].trimmed,
                         ai_answer |-> NullText, created_at |-> Len(chat_messages) + 1])
    /\ UNCHANGED <<probe, now, ticks, serverZone, active, hist, records, saved_charts>>

\* the catch of checkIfNeedsData reads intent.needsRecords: a TypeError on null
checkIfNeedsDataThrows(reply, intentIsNull) ==
    reply \in {"throw", "malformed"} /\ intentIsNull

\* the needs-data call settles: one of the two composer paths starts, or the
\* error of checkIfNeedsData is answered by the catch of handleSmartRequest
NeedsDataReturns(r, reply) ==
    /\ req[r].pc = "needsData"
    /\ LET needsData == checkIfNeedsData(reply, req[r].intent)
           rq        == [req[r] EXCEPT
                            !.needsData = needsData,
                            !.failed = IF reply \in {"throw", "malformed"}
                                       THEN @ \cup {"needsData"} ELSE @]
       IN  req' = [req EXCEPT ![r] =
                IF checkIfNeedsDataThrows(reply, req[r].intentIsNull)
                THEN [rq EXCEPT !.pc = "done", !.needsData = FALSE,
                          !.trace = Append(@, "res"),
                          !.responses = Append(@, ErrorResponse(500, "request processing error"))]
                ELSE IF needsData THEN StartHandleRequest(r, rq)
                ELSE StartHandleSimpleRequest(r, rq)]
    /\ UNCHANGED <<probe, now, ticks, serverZone, active, hist, chat_messages, records, saved_charts>>

(***************************************************************************)
(* handleSimpleRequest and the detached ai_answer update                   *)
(***************************************************************************)
ReplyCallReplies == {"throw"} \cup ModelContents

\* the update is awaited before res.json
RespondThenUpdate_UpdateFirst(rq, response, ai_answer) ==
    [rq EXCEPT !.pc = "done",
               !.aiResponse = ai_answer,
               !.trace = @ \o <<"update chat_messages", "res">>,
               !.responses = Append(@, response),
               !.update = [state |-> "dispatched", ai_answer |-> ai_answer]]

\* res.json(responseData); then supabase...update({ ai_answer }) without await
RespondThenUpdate(rq, response, ai_answer) ==
    [rq EXCEPT !.pc = "done",
               !.aiResponse = ai_answer,
               !.trace = @ \o <<"res", "update chat_messages">>,
               !.responses = Append(@, response),
               !.update = [state |-> "dispatched", ai_answer |-> ai_answer]]

\* content || fallback
ContentOr(content, fallback) == IF content = "" THEN fallback ELSE content

\* the reply call settles: 500 from the catch, or the reply is sent and the update dispatched
SimpleReturns(r, reply) ==
    /\ req[r].pc = "simple"
    /\ IF reply = "throw"
       THEN req' = [req EXCEPT ![r] = [@ EXCEPT
                !.pc = "done", !.failed = @ \cup {"reply"},
                !.trace = Append(@, "res"),
                !.responses = Send(r, ErrorResponse(500, "request processing error"))]]
       ELSE LET aiResponse == ContentOr(reply, SimpleFallbackMessage)
            IN  req' = [req EXCEPT ![r] =
                    RespondThenUpdate(req[r],
                        ReplyResponse(aiResponse, "conversation", NoDisplay, FALSE, NullChart), aiResponse)]
    /\ UNCHANGED <<probe, now, ticks, serverZone, active, hist, chat_messages, records, saved_charts>>

\* the update is keyed by the user instead of the message id
UpdateTargets_ByUser(row, messageId, user_id) == row.user_id = user_id

\* .update({ ai_answer }).eq('id', messageId)
UpdateTargets(row, messageId, user_id) == row.id = messageId

\* the detached update settles; its outcome is only logged.  An update whose
\* ai_answer is undefined carries no column and leaves the row as it is.
UpdateSettles(r, updateError) ==
    /\ req[r].update.state = "dispatched"
    /\ req' = [req EXCEPT ![r].update.state = IF updateError THEN "failed" ELSE "applied"]
    /\ chat_messages' =
         IF updateError \/ req[r].update.ai_answer = UndefinedText
         THEN chat_messages
         ELSE [i \in 1..Len(chat_messages) |->
                 IF UpdateTargets(chat_messages[i], r, req[r].user_id)
                 THEN [chat_messages[i] EXCEPT !.ai_answer = req[r].update.ai_answer]
                 ELSE chat_messages[i]]
    /\ UNCHANGED <<probe, now, ticks, serverZone, active, hist, records, saved_charts>>

(***************************************************************************)
(* Chart synthesis (generateEmotionChart, selectChartTypeByRule)           *)
(***************************************************************************)
\* the distribution rule is tested before the change rule
selectChartTypeByRule_BarFirst(question) ==
    LET q == toLowerCase(question)
    IN  IF includes(q, "bunpo") \/ includes(q, "bindo") \/ includes(q, "eolmana")
             \/ includes(q, "myeotbeon")
        THEN "bar"
        ELSE IF includes(q, "byeonhwa") \/ includes(q, "chui") \/ includes(q, "heureum")
             \/ includes(q, "paeteon")
        THEN "line"
        ELSE IF includes(q, "biyul") \/ includes(q, "guseong") \/ includes(q, "peosenteu")
             \/ includes(q, "bijung")
        THEN "pie"
        ELSE IF includes(q, "bigyo") \/ includes(q, "daejo") \/ includes(q, "vs")
             \/ includes(q, "daebi")
        THEN "radar"
        ELSE "line"

\* byeonhwa 변화 chui 추이 heureum 흐름 paeteon 패턴 / bunpo 분포 bindo 빈도
\* eolmana 얼마나 myeotbeon 몇번 / biyul 비율 guseong 구성 peosenteu 퍼센트
\* bijung 비중 / bigyo 비교 daejo 대조 vs daebi 대비
selectChartTypeByRule(question) ==
    LET q == toLowerCase(question)
    IN  IF includes(q, "byeonhwa") \/ includes(q, "chui") \/ includes(q, "heureum")
             \/ includes(q, "paeteon")
        THEN "line"
        ELSE IF includes(q, "bunpo") \/ includes(q, "bindo") \/ includes(q, "eolmana")
             \/ includes(q, "myeotbeon")
        THEN "bar"
        ELSE IF includes(q, "biyul") \/ includes(q, "guseong") \/ includes(q, "peosenteu")
             \/ includes(q, "bijung")
        THEN "pie"
        ELSE IF includes(q, "bigyo") \/ includes(q, "daejo") \/ includes(q, "vs")
             \/ includes(q, "daebi")
        THEN "radar"
        ELSE "line"

\* a fatigue column that is null
NullFatigue == -1

\* a date text that is no date
GarbageDate == 99999999

\* !isNaN(new Date(date).getTime()) for a YYYY-MM-DD text
IsParseableDate(date) ==
    LET month == (date \div 100) % 100
        day   == date % 100
    IN  month \in 1..12 /\ day \in 1..31

\* the filter of generateEmotionChart: !item.date || !item.fatigue drops the
\* row (a fatigue of 0 is falsy), then the date has to parse
IsValidRow(item) ==
    /\ ~ (item.date = NullDate \/ item.fatigue = NullFatigue \/ item.fatigue = 0)
    /\ IsParseableDate(item.date)

validDataOf(emotionData) == SelectSeq(emotionData, IsValidRow)

Chart4(type, labels, values) ==
    [type |-> type, noData |-> FALSE, hasData |-> TRUE, labels |-> labels, values |-> values]

\* the place of row k after the sort: behind the earlier rows and behind the
\* rows of the same date that came before it (Array.prototype.sort is stable)
PlaceOf(emotionData, k) ==
    Cardinality({ j \in 1..Len(emotionData) :
                    \/ emotionData[j].date < emotionData[k].date
                    \/ emotionData[j].date = emotionData[k].date /\ j <= k })

\* emotionData.sort((a, b) => new Date(a.date) - new Date(b.date))
SortByDate(emotionData) ==
    [i \in 1..Len(emotionData) |->
        emotionData[CHOOSE k \in 1..Len(emotionData) : PlaceOf(emotionData, k) = i]]

\* item.fatigue || 0
FatigueOrZero(fatigue) == IF fatigue = NullFatigue THEN 0 ELSE fatigue

\* the rows are plotted in the order they came in
generateLineChart_Unsorted(emotionData) ==
    Chart4("line",
           [i \in 1..Len(emotionData) |-> emotionData[i].date],
           [i \in 1..Len(emotionData) |-> FatigueOrZero(emotionData[i].fatigue)])

\* labels: the dates in ascending order; data: item.fatigue || 0
generateLineChart(emotionData) ==
    LET sortedData == SortByDate(emotionData)
    IN  Chart4("line",
               [i \in 1..Len(sortedData) |-> sortedData[i].date],
               [i \in 1..Len(sortedData) |-> FatigueOrZero(sortedData[i].fatigue)])

\* the label of rows without an emotion
NoEmotionLabel == "no information"

\* item.emotion || '정보없음'
emotionOf(item) == IF item.emotion = "" THEN NoEmotionLabel ELSE item.emotion

\* the rows that bring a label the rows before them do not have
FirstRows(emotionData) ==
    { k \in 1..Len(emotionData) :
        \A j \in 1..(k - 1) : emotionOf(emotionData[j]) # emotionOf(emotionData[k]) }

\* Object.keys(emotionCounts): the labels in the order of their first row
emotionKeys(emotionData) ==
    LET first == FirstRows(emotionData)
    IN  [i \in 1..Cardinality(first) |->
            emotionOf(emotionData[CHOOSE k \in first :
                                     Cardinality({ j \in first : j <= k }) = i])]

\* Object.values(emotionCounts): per label the number of its rows
emotionCounts(emotionData) ==
    LET keys == emotionKeys(emotionData)
    IN  [k \in 1..Len(keys) |->
            Cardinality({ i \in 1..Len(emotionData) : emotionOf(emotionData[i]) = keys[k] })]

generateBarChart(emotionData) ==
    Chart4("bar", emotionKeys(emotionData), emotionCounts(emotionData))

generatePieChart(emotionData) ==
    Chart4("pie", emotionKeys(emotionData), emotionCounts(emotionData))

generateRadarChart(emotionData) ==
    Chart4("radar", emotionKeys(emotionData), emotionCounts(emotionData))

\* switch (chartType)
generateChartData(emotionData, chartType) ==
    IF emotionData = <<>> THEN NoDataChart
    ELSE IF chartType = "bar" THEN generateBarChart(emotionData)
    ELSE IF chartType = "pie" THEN generatePieChart(emotionData)
    ELSE IF chartType = "radar" THEN generateRadarChart(emotionData)
    ELSE generateLineChart(emotionData)

generateEmotionChart(emotionData, question) ==
    IF emotionData = <<>> THEN NoDataChart
    ELSE IF validDataOf(emotionData) = <<>> THEN NoDataChart
    ELSE generateChartData(validDataOf(emotionData), selectChartTypeByRule(question))

(***************************************************************************)
(* Tables                                                                  *)
(***************************************************************************)
MaxCharts == 20

UserIds == { <<"test_user">>, <<>>, <<"u1">> }

Record(date, fatigue, emotion) == [date |-> date, fatigue |-> fatigue, emotion |-> emotion]

RecordsTable ==
    [ u \in UserIds |->
        IF u = <<"u1">>
        THEN << Record(20231231, 3, "happy"), Record(20240101, 2, ""),
                Record(20240315, 0, "calm"), Record(20240330, 4, "sad"),
                Record(20240331, 5, "sad"), Record(20240401, 1, "happy") >>
        ELSE IF u = <<"test_user">>
        THEN << Record(20240331, 0, "") >>
        ELSE << >> ]

\* .eq('user_id', user_id).gte('date', fromDate).lte('date', toDate).order('date')
SelectRecords(table, user_id, fromDate, toDate) ==
    LET InWindow(row) == fromDate <= row.date /\ row.date <= toDate
    IN  SelectSeq(table[user_id], InWindow)

\* chart_name is `${periodStart} 감정 차트`: the start date it carries
Chart(id, user_id, chart_type, period_start, period_end) ==
    [ id |-> id, user_id |-> user_id, chart_name |-> period_start, chart_type |-> chart_type,
      period_start |-> period_start, period_end |-> period_end, created_at |-> id ]

\* a store in which user u1 already holds MaxCharts charts
FullCharts == [ i \in 1..MaxCharts |-> Chart(i, <<"u1">>, "line", 20240101, 20240131) ]

ChartsOf(charts, user_id) ==
    LET Mine(c) == c.user_id = user_id
    IN  SelectSeq(charts, Mine)

NextChartId(charts) ==
    IF charts = <<>> THEN 1 ELSE charts[Len(charts)].id + 1

(***************************************************************************)
(* handleRequest: the data path                                            *)
(***************************************************************************)
\* the empty check is missing
HasNoData_Never(data) == FALSE

\* if (!data || data.length === 0)
HasNoData(data) == data = <<>>

\* intent.analysisType || 'period'
OrPeriod(analysisType) == IF analysisType = "" THEN "period" ELSE analysisType

\* step 5 and 6 of handleRequest
FinishHandleRequest(rq) ==
    RespondThenUpdate(rq,
        ReplyResponse(rq.aiResponse, OrPeriod(rq.intent.analysisType),
                      getDateRangeDisplay(rq.intent, now),
                      rq.intent.isAnalysisRequest, rq.chartData),
        rq.aiResponse)

\* the records query settles (an error leaves records undefined, read as [])
FetchReturns(r, queryError) ==
    /\ req[r].pc = "fetch"
    /\ LET data == IF queryError THEN <<>>
                   ELSE SelectRecords(records, req[r].user_id,
                                      req[r].window.fromDate, req[r].window.toDate)
       IN  IF HasNoData(data)
           THEN req' = [req EXCEPT ![r] = [@ EXCEPT
                    !.pc = "done", !.rows = data,
                    !.aiResponse = NoRecordsMessage,
                    !.chartData = NoDataChart,
                    !.trace = Append(@, "res"),
                    !.responses = Send(r,
                        ReplyResponse(NoRecordsMessage, OrPeriod(req[r].intent.analysisType),
                                      getDateRangeDisplay(req[r].intent, now),
                                      req[r].intent.isAnalysisRequest, NoDataChart))]]
           ELSE req' = [req EXCEPT ![r] = [@ EXCEPT
                    !.pc = "analyze", !.rows = data,
                    !.trace = Append(@, "call analysis")]]
    /\ UNCHANGED <<probe, now, ticks, serverZone, active, hist, chat_messages, records, saved_charts>>

\* analyzeData: { result } or, from its catch, { error } whose result is undefined
analysisResultOf(reply) ==
    IF reply = "throw" THEN UndefinedText ELSE ContentOr(reply, AnalysisFallbackMessage)

\* periodStart / periodEnd of the chart save; threw is the TypeError on null
chartPeriod(intent, t, zone) ==
    LET range == calculateDateRange(OrMonth(intent.periodType), OrOne(intent.periodValue), t, zone)
    IN  IF (intent.fromDate = NullDate \/ intent.toDate = NullDate) /\ ~range.ok
        THEN [threw |-> TRUE, fromDate |-> NullDate, toDate |-> NullDate]
        ELSE [threw |-> FALSE,
              fromDate |-> IF intent.fromDate # NullDate THEN intent.fromDate ELSE range.fromDate,
              toDate   |-> IF intent.toDate # NullDate THEN intent.toDate ELSE range.toDate]

\* a chart is made for every request of the data path
WantsChart_Always(intent) == TRUE

\* if (intent.needsChart)
WantsChart(intent) == intent.needsChart

\* the analysis call settles; chart synthesis; saveChart is awaited when a chart was made
AnalyzeReturns(r, reply) ==
    /\ req[r].pc = "analyze"
    /\ LET result == analysisResultOf(reply)
           rq     == [req[r] EXCEPT
                         !.aiResponse = result,
                         !.failed = IF reply = "throw" THEN @ \cup {"analysis"} ELSE @]
       IN  IF ~WantsChart(rq.intent)
           THEN req' = [req EXCEPT ![r] = FinishHandleRequest(rq)]
           ELSE LET chartData == generateEmotionChart(rq.rows, rq.message.text)
                    period == chartPeriod(rq.intent, now, serverZone)
                    rc == [rq EXCEPT !.chartData = chartData,
                                     !.trace = Append(@, "generate chart")]
                IN  IF chartData.hasData /\ ~period.threw
                    THEN req' = [req EXCEPT ![r] = [rc EXCEPT
                            !.pc = "saveChart",
                            !.periodStart = period.fromDate,
                            !.periodEnd = period.toDate,
                            !.trace = Append(@, "insert saved_charts")]]
                    ELSE req' = [req EXCEPT ![r] = FinishHandleRequest(rc)]
    /\ UNCHANGED <<probe, now, ticks, serverZone, active, hist, chat_messages, records, saved_charts>>

\* the error of saveChart reaches the outer catch of handleRequest
CatchSaveError_Rethrow(rq) ==
    [rq EXCEPT !.pc = "done",
               !.trace = Append(@, "res"),
               !.responses = Append(@, ErrorResponse(500, "request processing error"))]

\* catch (saveError): logged, the response goes on
CatchSaveError(rq) == FinishHandleRequest(rq)

\* saveChart: the insert settles; on success cleanupOldCharts issues its count
SaveChartInsertReturns(r, error) ==
    /\ req[r].pc = "saveChart"
    /\ IF error
       THEN /\ req' = [req EXCEPT ![r] = CatchSaveError(req[r])]
            /\ UNCHANGED saved_charts
       ELSE /\ saved_charts' = Append(saved_charts,
                    Chart(NextChartId(saved_charts), req[r].user_id, req[r].chartData.type,
                          req[r].periodStart, req[r].periodEnd))
            /\ req' = [req EXCEPT ![r] = [@ EXCEPT
                    !.pc = "cleanupCount", !.cleanup = "running",
                    !.trace = Append(@, "count saved_charts")]]
    /\ UNCHANGED <<probe, now, ticks, serverZone, active, hist, chat_messages, records>>

\* the cleanup starts one chart late
ExceedsCap_OneLate(count) == count > MaxCharts + 1

\* if (count > maxCharts)
ExceedsCap(count) == count > MaxCharts

\* cleanupOldCharts: the count settles
CleanupCountReturns(r, countError) ==
    /\ req[r].pc = "cleanupCount"
    /\ LET count == Len(ChartsOf(saved_charts, req[r].user_id))
       IN  IF countError \/ ~ExceedsCap(count)
           THEN req' = [req EXCEPT ![r] = FinishHandleRequest(
                    [req[r] EXCEPT !.cleanup = IF countError THEN "error" ELSE "ok"])]
           ELSE req' = [req EXCEPT ![r] = [@ EXCEPT
                    !.pc = "cleanupSelect", !.deleteCount = count - MaxCharts,
                    !.trace = Append(@, "select saved_charts")]]
    /\ UNCHANGED <<probe, now, ticks, serverZone, active, hist, chat_messages, records, saved_charts>>

\* cleanupOldCharts: the select of the oldest deleteCount ids settles
CleanupSelectReturns(r, selectError) ==
    /\ req[r].pc = "cleanupSelect"
    /\ IF selectError
       THEN req' = [req EXCEPT ![r] = FinishHandleRequest([req[r] EXCEPT !.cleanup = "error"])]
       ELSE LET mine == ChartsOf(saved_charts, req[r].user_id)
                n    == Min(req[r].deleteCount, Len(mine))
            IN  req' = [req EXCEPT ![r] = [@ EXCEPT
                    !.pc = "cleanupDelete",
                    !.idsToDelete = { mine[i].id : i \in 1..n },
                    !.trace = Append(@, "delete saved_charts")]]
    /\ UNCHANGED <<probe, now, ticks, serverZone, active, hist, chat_messages, records, saved_charts>>

\* cleanupOldCharts: the delete settles
CleanupDeleteReturns(r, deleteError) ==
    /\ req[r].pc = "cleanupDelete"
    /\ req' = [req EXCEPT ![r] = FinishHandleRequest(
            [req[r] EXCEPT !.cleanup = IF deleteError THEN "error" ELSE "ok"])]
    /\ saved_charts' =
         IF deleteError THEN saved_charts
         ELSE LET Kept(c) == c.id \notin req[r].idsToDelete
              IN  SelectSeq(saved_charts, Kept)
    /\ UNCHANGED <<probe, now, ticks, serverZone, active, hist, chat_messages, records>>

(***************************************************************************)
(* getChatHistory                                                          *)
(***************************************************************************)
HistoryLimit == 20

\* a check for undefined only
MissingUserId_UndefinedOnly(user_id) == user_id.type = "undefined"

\* if (!user_id)
MissingUserId(user_id) == user_id.type = "undefined" \/ user_id.text = <<>>

Take(s, n) == SubSeq(s, 1, Min(n, Len(s)))

\* .eq('user_id', user_id).order('created_at', { ascending: true }).limit(20)
SelectHistory(table, user_id) ==
    LET Mine(row) == row.user_id = user_id
    IN  Take(SelectSeq(table, Mine), HistoryLimit)

HistoryResponse(status, error, chatHistory) ==
    [status |-> status, error |-> error, chatHistory |-> chatHistory, count |-> Len(chatHistory)]

\* GET /chat/history arrives
getChatHistory(user_id) ==
    /\ hist.pc = "idle"
    /\ IF MissingUserId(user_id)
       THEN hist' = [hist EXCEPT !.pc = "done", !.user_id = user_id,
                        !.trace = Append(@, "res"),
                        !.responses = Append(@, HistoryResponse(400, "user_id is required", <<>>))]
       ELSE hist' = [hist EXCEPT !.pc = "read", !.user_id = user_id,
                        !.trace = Append(@, "select chat_messages")]
    /\ UNCHANGED <<probe, now, ticks, serverZone, active, req, chat_messages, records, saved_charts>>

\* the chat_messages query settles
HistoryReturns(error) ==
    /\ hist.pc = "read"
    /\ hist' = [hist EXCEPT !.pc = "done", !.trace = Append(@, "res"),
                   !.responses = Append(@,
                       IF error THEN HistoryResponse(500, "history query error", <<>>)
                       ELSE HistoryResponse(200, "", SelectHistory(chat_messages, hist.user_id.text)))]
    /\ UNCHANGED <<probe, now, ticks, serverZone, active, req, chat_messages, records, saved_charts>>

(***************************************************************************)
(* The clock and the specification of the pipeline                         *)
(***************************************************************************)
Tick ==
    /\ ticks < MaxTicks
    /\ now' = AdvanceClock(now)
    /\ ticks' = ticks + 1
    /\ UNCHANGED <<probe, serverZone, active, req, hist, chat_messages, records, saved_charts>>

Init ==
    /\ now \in StartInstants
    /\ ticks = 0
    /\ serverZone \in ServerZones
    /\ active = {"r1"}
    /\ req = [r \in Reqs |-> InitReq]
    /\ hist = InitHist
    /\ probe = NoProbe
    /\ chat_messages = <<>>
    /\ records = RecordsTable
    /\ saved_charts = FullCharts

\* the steps of POST /chat
NextChat ==
    \/ \E r \in Reqs, message \in MessageInputs, user_id \in UserIdInputs :
            handleChatRequest(r, message, user_id)
    \/ \E r \in Reqs, reply \in IntentReplies : IntentReturns(r, reply)
    \/ \E r \in Reqs, insertError \in BOOLEAN : InsertReturns(r, insertError)
    \/ \E r \in Reqs, reply \in NeedsDataReplies : NeedsDataReturns(r, reply)
    \/ \E r \in Reqs, reply \in ReplyCallReplies : SimpleReturns(r, reply)
    \/ \E r \in Reqs, queryError \in BOOLEAN : FetchReturns(r, queryError)
    \/ \E r \in Reqs, reply \in ReplyCallReplies : AnalyzeReturns(r, reply)
    \/ \E r \in Reqs, error \in BOOLEAN : SaveChartInsertReturns(r, error)
    \/ \E r \in Reqs, error \in BOOLEAN : CleanupCountReturns(r, error)
    \/ \E r \in Reqs, error \in BOOLEAN : CleanupSelectReturns(r, error)
    \/ \E r \in Reqs, error \in BOOLEAN : CleanupDeleteReturns(r, error)
    \/ \E r \in Reqs, error \in BOOLEAN : UpdateSettles(r, error)
    \/ Tick

\* the steps of GET /chat/history
NextHistory ==
    \/ \E user_id \in UserIdInputs : getChatHistory(user_id)
    \/ \E error \in BOOLEAN : HistoryReturns(error)

Next == NextChat \/ NextHistory

\* both endpoints, interleaved
Spec == Init /\ [][Next]_vars

\* POST /chat alone
SpecChat == Init /\ [][NextChat]_vars

(***************************************************************************)
(* The Data Fetcher over every intent: a request that waits for the        *)
(* needs-data decision, with any intent the classification call may have   *)
(* returned, at any of the instants.                                       *)
(***************************************************************************)
WaitingForNeedsData(intent) ==
    [ InitReq EXCEPT
        !.pc = "needsData",
        !.message = JsString(<<"eoje", "bunseok", "byeonhwa">>),
        !.body_user_id = JsString(<<"u1">>),
        !.user_id = <<"u1">>,
        !.trimmed = <<"eoje", "bunseok", "byeonhwa">>,
        !.intent = intent,
        !.insertError = "null",
        !.trace = <<"call intent", "insert chat_messages", "call needsData">> ]

InitFetch ==
    /\ now \in FetchInstants
    /\ ticks = 0
    /\ serverZone \in ServerZones
    /\ active = {"r1"}
    /\ \E intent \in IntentSpace :
            req = [r \in Reqs |-> IF r = "r1" THEN WaitingForNeedsData(intent) ELSE InitReq]
    /\ hist = InitHist
    /\ probe = NoProbe
    /\ chat_messages = << [id |-> "r1", user_id |-> <<"u1">>,
                           user_chat |-> <<"eoje", "bunseok", "byeonhwa">>,
                           ai_answer |-> NullText, created_at |-> 1] >>
    /\ records = RecordsTable
    /\ saved_charts = FullCharts

NextFetch ==
    \/ \E r \in Reqs, reply \in NeedsDataReplies : NeedsDataReturns(r, reply)
    \/ Tick

SpecFetch == InitFetch /\ [][NextFetch]_vars

(***************************************************************************)
(* Vocabulary of the properties                                            *)
(***************************************************************************)
\* the message field is missing, not a string, empty or white space only
IsBlankMessage(message) ==
    \/ message.type # "string"
    \/ \A i \in 1..Len(message.text) : message.text[i] = Whitespace

ModelCalls == {"call intent", "call needsData", "call reply", "call analysis"}
DatabaseOps ==
    {"insert chat_messages", "update chat_messages", "select records",
     "insert saved_charts", "count saved_charts", "select saved_charts", "delete saved_charts"}

Occurs(trace, events) == \E i \in 1..Len(trace) : trace[i] \in events

Received(r) == req[r].pc # "idle"

(***************************************************************************)
(* C1  A POST /chat whose message is missing, not a string, empty or       *)
(* white space only is answered with HTTP 400 and nothing else happens     *)
(* for it: no model call and no database read or write.                    *)
(***************************************************************************)
C1_BlankMessageRejected ==
    \A r \in Reqs :
        (Received(r) /\ IsBlankMessage(req[r].message)) =>
            /\ req[r].pc = "done"
            /\ Len(req[r].responses) = 1
            /\ req[r].responses[1].status = 400
            /\ req[r].responses[1].error # ""
            /\ ~Occurs(req[r].trace, ModelCalls \cup DatabaseOps)
            /\ \A i \in 1..Len(chat_messages) : chat_messages[i].id # r

\* a white-space-only message has been rejected
C1_Witness ==
    \E r \in Reqs :
        /\ req[r].pc = "done"
        /\ req[r].message.type = "string"
        /\ Len(req[r].message.text) = 2
        /\ IsBlankMessage(req[r].message)
        /\ req[r].responses[1].status = 400

(***************************************************************************)
(* C2  As claimed: when the insert of the inbound chat_messages row fails, *)
(* the request is answered with HTTP 500 and no model call at all          *)
(* (classification, needs-data decision, composition) has been issued.     *)
(***************************************************************************)
C2_Original ==
    \A r \in Reqs :
        req[r].insertError = "error" =>
            /\ req[r].responses = <<ErrorResponse(500, "message save failed")>>
            /\ ~Occurs(req[r].trace, ModelCalls)

(***************************************************************************)
(* C2  As amended: when the insert of the inbound chat_messages row fails, *)
(* the request is answered with HTTP 500 and ends there; the               *)
(* classification call is the only model call issued for it (it precedes   *)
(* the insert), and no needs-data or composition call and no further       *)
(* database operation follows.                                             *)
(***************************************************************************)
C2_InsertFailureAborts ==
    \A r \in Reqs :
        req[r].insertError = "error" =>
            /\ req[r].pc = "done"
            /\ req[r].responses = <<ErrorResponse(500, "message save failed")>>
            /\ req[r].trace = <<"call intent", "insert chat_messages", "res">>
            /\ req[r].update.state = "none"
            /\ \A i \in 1..Len(chat_messages) : chat_messages[i].id # r

\* an insert has failed for a request whose intent asks for records
C2_Witness ==
    \E r \in Reqs :
        /\ req[r].insertError = "error"
        /\ req[r].intent.needsRecords
        /\ req[r].pc = "done"

(***************************************************************************)
(* C3  As claimed: a failing model call (an error or a malformed reply of  *)
(* the classification, needs-data, reply or analysis call) never surfaces: *)
(* the request, once its message row is stored, its intent is an object   *)
(* and its window is computed, ends in a 200 reply that carries a text.    *)
(***************************************************************************)
C3_ModelFailureNeverSurfaces ==
    \A r \in Reqs :
        ( /\ req[r].pc = "done"
          /\ req[r].failed # {}
          /\ req[r].insertError = "null"
          /\ ~req[r].intentIsNull
          /\ ~req[r].window.threw ) =>
            /\ Len(req[r].responses) = 1
            /\ req[r].responses[1].status = 200
            /\ req[r].responses[1].aiResponse \notin {UndefinedText, NullText, ""}

GetDataStep(r) == req[r].pc = "needsData" /\ req'[r].pc \in {"fetch", "done"}

IsDayIntent(intent) == intent.timeRange \in {"today", "yesterday"}

IsCustomIntent(intent) ==
    intent.analysisType = "custom" /\ intent.fromDate # NullDate /\ intent.toDate # NullDate

\* the calendar date in Seoul, nine hours ahead of UTC
SeoulDate(t) == IF t.hour >= 15 THEN NextDay(t.date) ELSE t.date

(***************************************************************************)
(* C5  Whenever intent.timeRange is 'today' or 'yesterday', the window of  *)
(* getData is exactly one calendar day, fromDate = toDate = today (or the  *)
(* day before) in Seoul at that moment, whatever analysisType, fromDate,   *)
(* toDate, periodType and periodValue the intent carries.                  *)
(***************************************************************************)
C5_DayIntentSingleDay ==
    [][ \A r \in Reqs :
          (GetDataStep(r) /\ IsDayIntent(req[r].intent)) =>
              LET day == IF req[r].intent.timeRange = "today"
                         THEN SeoulDate(now) ELSE PrevDay(SeoulDate(now))
              IN  /\ req'[r].pc = "fetch"
                  /\ req'[r].window.fromDate = FormatDate(day)
                  /\ req'[r].window.toDate = FormatDate(day) ]_vars

\* a today intent with custom dates and an unknown period type has its
\* one-day window, which is none of the dates of the intent
C5_Witness ==
    \E r \in Reqs :
        /\ req[r].pc = "fetch"
        /\ req[r].intent.timeRange = "today"
        /\ IsCustomIntent(req[r].intent)
        /\ req[r].intent.periodType = "quarter"
        /\ req[r].window.fromDate = req[r].window.toDate
        /\ req[r].window.fromDate \notin {req[r].intent.fromDate, req[r].intent.toDate}

(***************************************************************************)
(* C6  When intent.timeRange is neither 'today' nor 'yesterday',           *)
(* analysisType is 'custom' and both dates are present, getData queries    *)
(* with exactly those two dates, whatever periodType and periodValue are.  *)
(***************************************************************************)
C6_CustomDatesVerbatim ==
    [][ \A r \in Reqs :
          (GetDataStep(r) /\ ~IsDayIntent(req[r].intent) /\ IsCustomIntent(req[r].intent)) =>
              /\ req'[r].pc = "fetch"
              /\ req'[r].window.fromDate = req[r].intent.fromDate
              /\ req'[r].window.toDate = req[r].intent.toDate ]_vars

\* a custom intent with two different dates and an unknown period type is being fetched
C6_Witness ==
    \E r \in Reqs :
        /\ req[r].pc = "fetch"
        /\ ~IsDayIntent(req[r].intent)
        /\ IsCustomIntent(req[r].intent)
        /\ req[r].intent.fromDate < req[r].intent.toDate
        /\ req[r].intent.periodType = "quarter"
        /\ req[r].window.fromDate = req[r].intent.fromDate
        /\ req[r].window.toDate = req[r].intent.toDate

(***************************************************************************)
(* C7  As claimed: for every intent that is neither a today/yesterday      *)
(* intent nor a custom intent with both dates, getData takes its window    *)
(* from calculateDateRange(periodType or month, periodValue or 1), that    *)
(* is [now minus the period, now], whatever fromDate, toDate or periodType *)
(* the intent carries (one month when the type is not recognised), and     *)
(* the fetch always has a window.                                          *)
(***************************************************************************)
C7_FallbackToResolver ==
    [][ \A r \in Reqs :
          (GetDataStep(r) /\ ~IsDayIntent(req[r].intent) /\ ~IsCustomIntent(req[r].intent)) =>
              LET asked == calculateDateRange(OrMonth(req[r].intent.periodType),
                                              OrOne(req[r].intent.periodValue), now, serverZone)
                  range == IF asked.ok THEN asked
                           ELSE calculateDateRange("month", 1, now, serverZone)
              IN  /\ req'[r].pc = "fetch"
                  /\ ~req'[r].window.threw
                  /\ req'[r].window.fromDate = range.fromDate
                  /\ req'[r].window.toDate = range.toDate ]_vars

(***************************************************************************)
(* Which path a finished request took.                                     *)
(***************************************************************************)
TookDataPath(r)   == Occurs(req[r].trace, {"select records"})
TookSimplePath(r) == Occurs(req[r].trace, {"call reply"})
FetchedNothing(r) == TookDataPath(r) /\ req[r].pc # "fetch" /\ req[r].rows = <<>>

(***************************************************************************)
(* C8  On the data path, whenever the fetched row sequence is empty the    *)
(* reply is the fixed 'no records' message with a chartData of type        *)
(* 'message' and noData true, and no analysis call, no chart synthesis     *)
(* and no chart save is performed for the request.                         *)
(***************************************************************************)
C8_EmptyRowsFixedReply ==
    \A r \in Reqs :
        FetchedNothing(r) =>
            /\ req[r].pc = "done"
            /\ Len(req[r].responses) = 1
            /\ req[r].responses[1].status = 200
            /\ req[r].responses[1].aiResponse = NoRecordsMessage
            /\ req[r].responses[1].chartData.type = "message"
            /\ req[r].responses[1].chartData.noData
            /\ ~Occurs(req[r].trace, {"call analysis", "generate chart", "insert saved_charts",
                                      "count saved_charts", "select saved_charts",
                                      "delete saved_charts"})
            /\ saved_charts = FullCharts

\* a request that asks for a chart fetched no rows from a store that has
\* rows for its user, and was answered
C8_Witness ==
    \E r \in Reqs :
        /\ FetchedNothing(r)
        /\ req[r].intent.needsChart
        /\ records[req[r].user_id] # <<>>
        /\ req[r].responses # <<>>

(***************************************************************************)
(* C9  As claimed: for every POST /chat that is answered with a reply (the *)
(* conversational path, the data path with rows, the data path without     *)
(* rows) an update is dispatched that sets ai_answer of the row inserted   *)
(* for the request to exactly the aiResponse returned to the caller.       *)
(***************************************************************************)
C9_ReplyIsPersisted ==
    \A r \in Reqs :
        (req[r].pc = "done" /\ Len(req[r].responses) = 1 /\ req[r].responses[1].status = 200) =>
            /\ req[r].update.state # "none"
            /\ req[r].update.ai_answer = req[r].responses[1].aiResponse
            /\ Occurs(req[r].trace, {"update chat_messages"})

(***************************************************************************)
(* C10  The ai_answer update of a request is dispatched only after the     *)
(* response of the request has been sent, the response does not wait for   *)
(* it, and a failure of the update neither changes the response already    *)
(* sent nor produces a second one.                                         *)
(***************************************************************************)
UpdateAfterResponse(r) ==
    \A i \in 1..Len(req[r].trace) :
        req[r].trace[i] = "update chat_messages" =>
            \E j \in 1..(i - 1) : req[r].trace[j] = "res"

C10_UpdateAfterResponse ==
    /\ [] (\A r \in Reqs :
            /\ UpdateAfterResponse(r)
            /\ req[r].update.state # "none" =>
                 /\ Len(req[r].responses) = 1
                 /\ req[r].responses[1].status = 200)
    /\ [][ \A r \in Reqs :
            req[r].responses # <<>> => req'[r].responses = req[r].responses ]_vars

\* the update of an answered request has failed
C10_Witness ==
    \E r \in Reqs :
        /\ req[r].update.state = "failed"
        /\ Len(req[r].responses) = 1
        /\ req[r].responses[1].status = 200
        /\ \E i \in 1..Len(chat_messages) :
             chat_messages[i].id = r /\ chat_messages[i].ai_answer = NullText

(***************************************************************************)
(* C11: the chart save and the response                                    *)
(***************************************************************************)
ChartSaveOps ==
    {"insert saved_charts", "count saved_charts", "select saved_charts", "delete saved_charts"}

\* the chart save of r is in flight: its insert or a cleanup query has not settled
SavingChart(r) == req[r].pc \in {"saveChart", "cleanupCount", "cleanupSelect", "cleanupDelete"}

ConcMessages == { JsString(<<" ">>), JsString(<<"eoje", "bunseok", "byeonhwa">>) }

ConcIntentReplies ==
    { [kind |-> "throw", intent |-> NoIntent],
      [kind |-> "json",
       intent |-> ModelIntent(TRUE, TRUE, TRUE, "custom", "custom", "", 0, 20240315, 20240331)] }

InitConc ==
    /\ now = [date |-> <<2024, 3, 31>>, hour |-> 2]
    /\ ticks = 0
    /\ serverZone = KoreaOffset
    /\ active = Reqs
    /\ req = [r \in Reqs |-> InitReq]
    /\ hist = InitHist
    /\ probe = NoProbe
    /\ chat_messages = <<>>
    /\ records = RecordsTable
    /\ saved_charts = FullCharts

NextConc ==
    \/ \E r \in Reqs, message \in ConcMessages : handleChatRequest(r, message, JsString(<<"u1">>))
    \/ \E r \in Reqs, reply \in ConcIntentReplies : IntentReturns(r, reply)
    \/ \E r \in Reqs, insertError \in BOOLEAN : InsertReturns(r, insertError)
    \/ \E r \in Reqs, reply \in {"true", "false"} : NeedsDataReturns(r, reply)
    \/ \E r \in Reqs, reply \in {"throw", "model text"} : SimpleReturns(r, reply)
    \/ \E r \in Reqs : FetchReturns(r, FALSE)
    \/ \E r \in Reqs : AnalyzeReturns(r, "model text")
    \/ \E r \in Reqs, error \in BOOLEAN : SaveChartInsertReturns(r, error)
    \/ \E r \in Reqs, error \in BOOLEAN : CleanupCountReturns(r, error)
    \/ \E r \in Reqs, error \in BOOLEAN : CleanupSelectReturns(r, error)
    \/ \E r \in Reqs, error \in BOOLEAN : CleanupDeleteReturns(r, error)
    \/ \E r \in Reqs, error \in BOOLEAN : UpdateSettles(r, error)

SpecConc == InitConc /\ [][NextConc]_vars

(***************************************************************************)
(* C12: the cap of saved charts                                            *)
(***************************************************************************)
\* the cleanup run of r completes in this step without a database error
CleanupCompletes(r) == req[r].cleanup = "running" /\ req'[r].cleanup = "ok"

\* C12: after a cleanup run for a user completes without a database error the
\* user has at most 20 saved charts, and every chart the cleanup deleted was
\* created no later than every chart of the user that it kept.
C12_CapAfterCleanup ==
    [][ /\ \A r \in Reqs :
             CleanupCompletes(r) => Len(ChartsOf(saved_charts', req[r].user_id)) <= MaxCharts
        /\ \A i \in 1..Len(saved_charts), k \in 1..Len(saved_charts') :
             (/\ \A j \in 1..Len(saved_charts') : saved_charts'[j].id # saved_charts[i].id
              /\ saved_charts'[k].user_id = saved_charts[i].user_id)
                => saved_charts[i].created_at <= saved_charts'[k].created_at ]_vars

(***************************************************************************)
(* selectChartTypeByRule called on every question of up to MaxWords words  *)
(***************************************************************************)
MaxWords == 2

RECURSIVE SeqsUpTo(_, _)
\* the sequences over S of length at most n
SeqsUpTo(S, n) ==
    IF n = 0 THEN { <<>> }
    ELSE LET shorter == SeqsUpTo(S, n - 1)
         IN  shorter \cup { Append(t, w) : t \in shorter, w \in S }

\* the words of a question: the keywords of the four rules, one of them in
\* capitals, and words that are no keyword
QuestionWords ==
    { "byeonhwa", "chui", "heureum", "paeteon", "bunpo", "bindo", "eolmana", "myeotbeon",
      "biyul", "guseong", "peosenteu", "bijung", "bigyo", "daejo", "vs", "VS", "daebi",
      "gibun", " " }

Questions == SeqsUpTo(QuestionWords, MaxWords)

InitChartType ==
    /\ now \in StartInstants
    /\ ticks = 0
    /\ serverZone \in ServerZones
    /\ active = {}
    /\ req = [r \in Reqs |-> InitReq]
    /\ hist = InitHist
    /\ chat_messages = <<>>
    /\ records = RecordsTable
    /\ saved_charts = FullCharts
    /\ \E question \in Questions :
          probe = [NoProbe EXCEPT !.fn = "selectChartTypeByRule", !.question = question]

\* selectChartTypeByRule(question) returns
CallSelectChartTypeByRule ==
    /\ probe.fn = "selectChartTypeByRule"
    /\ ~probe.called
    /\ probe' = [probe EXCEPT !.called = TRUE,
                              !.chartType = selectChartTypeByRule(probe.question)]
    /\ UNCHANGED <<now, ticks, serverZone, active, req, hist, chat_messages, records, saved_charts>>

NextChartType == CallSelectChartTypeByRule

SpecChartType == InitChartType /\ [][NextChartType]_vars

(***************************************************************************)
(* C13: the chart type rule                                                *)
(***************************************************************************)
\* the keyword groups in the words of the claim: change, trend, flow,
\* pattern / distribution, frequency, how much, how many times / ratio,
\* composition, percent, share / compare, contrast, vs, against
ChangeWords  == {"byeonhwa", "chui", "heureum", "paeteon"}
AmountWords  == {"bunpo", "bindo", "eolmana", "myeotbeon"}
ShareWords   == {"biyul", "guseong", "peosenteu", "bijung"}
CompareWords == {"bigyo", "daejo", "vs", "daebi"}

\* the lowercased question contains a word of the group
Mentions(question, group) ==
    \E i \in 1..Len(question) :
        \/ question[i] \in group
        \/ question[i] = "VS" /\ "vs" \in group

\* C13: the chart type depends only on the lowercased question: line if it
\* mentions change, trend, flow or pattern, else bar if it mentions
\* distribution, frequency, how much or how many times, else pie if it
\* mentions ratio, composition, percent or share, else radar if it mentions a
\* comparison, a contrast or vs, else line; the type is always one of line,
\* bar, pie and radar.
C13_ChartTypeRule ==
    probe.fn = "selectChartTypeByRule" /\ probe.called =>
        /\ probe.chartType \in {"line", "bar", "pie", "radar"}
        /\ Mentions(probe.question, ChangeWords) => probe.chartType = "line"
        /\ (~Mentions(probe.question, ChangeWords) /\ Mentions(probe.question, AmountWords))
              => probe.chartType = "bar"
        /\ (~Mentions(probe.question, ChangeWords \cup AmountWords)
              /\ Mentions(probe.question, ShareWords)) => probe.chartType = "pie"
        /\ (~Mentions(probe.question, ChangeWords \cup AmountWords \cup ShareWords)
              /\ Mentions(probe.question, CompareWords)) => probe.chartType = "radar"
        /\ ~Mentions(probe.question, ChangeWords \cup AmountWords \cup ShareWords \cup CompareWords)
              => probe.chartType = "line"

\* a question with a share word before a change word gets a line chart, and
\* one with VS in capitals and no other keyword a radar chart
C13_Witness ==
    /\ probe.fn = "selectChartTypeByRule" /\ probe.called
    /\ \/ probe.question = <<"biyul", "byeonhwa">> /\ probe.chartType = "line"
       \/ probe.question = <<"gibun", "VS">> /\ probe.chartType = "radar"

(***************************************************************************)
(* generateEmotionChart called on every list of up to MaxRows rows         *)
(***************************************************************************)
MaxRows == 2

\* the rows: the date missing, no date, or a date; the fatigue missing, 0,
\* or a higher value of the scale
RowInputs ==
    { Record(date, fatigue, "sad") :
        date \in {NullDate, GarbageDate, 20240101, 20240315},
        fatigue \in {NullFatigue, 0, 3, 5} }

InitChartRows ==
    /\ now = [date |-> <<2024, 3, 31>>, hour |-> 2]
    /\ ticks = 0
    /\ serverZone = KoreaOffset
    /\ active = {}
    /\ req = [r \in Reqs |-> InitReq]
    /\ hist = InitHist
    /\ chat_messages = <<>>
    /\ records = RecordsTable
    /\ saved_charts = FullCharts
    /\ \E emotionData \in SeqsUpTo(RowInputs, MaxRows), question \in {<<"gibun">>, <<"biyul">>} :
          probe = [NoProbe EXCEPT !.fn = "generateEmotionChart",
                                  !.emotionData = emotionData, !.question = question]

\* generateEmotionChart(emotionData, question) returns; validData is its local
CallGenerateEmotionChart ==
    /\ probe.fn = "generateEmotionChart"
    /\ ~probe.called
    /\ probe' = [probe EXCEPT !.called = TRUE,
                              !.validData = validDataOf(probe.emotionData),
                              !.chart = generateEmotionChart(probe.emotionData, probe.question)]
    /\ UNCHANGED <<now, ticks, serverZone, active, req, hist, chat_messages, records, saved_charts>>

NextChartRows == CallGenerateEmotionChart

SpecChartRows == InitChartRows /\ [][NextChartRows]_vars

(***************************************************************************)
(* C14: the rows a chart is made of                                        *)
(***************************************************************************)
\* the row has a date that parses and a fatigue value of the scale 0..5
HasDateAndFatigue(item) ==
    /\ item.date # NullDate
    /\ IsParseableDate(item.date)
    /\ item.fatigue \in 0..5

\* C14: the rows handed to chart shaping are exactly the fetched rows that
\* have a date that parses and a fatigue value: every row missing one of them
\* is dropped, every row with a parseable date and a fatigue value of the
\* scale 0 to 5 is kept, and if no row survives the result is the noData
\* descriptor.
C14_ValidRowsKept ==
    probe.fn = "generateEmotionChart" /\ probe.called =>
        /\ probe.validData = SelectSeq(probe.emotionData, HasDateAndFatigue)
        /\ probe.validData = <<>> => probe.chart = NoDataChart
        /\ probe.validData # <<>> => probe.chart.hasData

(***************************************************************************)
(* calculateDateRange called at every instant with every period            *)
(***************************************************************************)
MaxRangeValue == 13

PeriodTypes == {"day", "week", "month", "year", "quarter", ""}

InitDateRange ==
    /\ now \in FetchInstants
    /\ ticks = 0
    /\ serverZone \in ServerZones
    /\ active = {}
    /\ req = [r \in Reqs |-> InitReq]
    /\ hist = InitHist
    /\ chat_messages = <<>>
    /\ records = RecordsTable
    /\ saved_charts = FullCharts
    /\ \E periodType \in PeriodTypes, periodValue \in 0..MaxRangeValue :
          probe = [NoProbe EXCEPT !.fn = "calculateDateRange",
                                  !.periodType = periodType, !.periodValue = periodValue]

\* calculateDateRange(periodType, periodValue) returns
CallCalculateDateRange ==
    /\ probe.fn = "calculateDateRange"
    /\ ~probe.called
    /\ probe' = [probe EXCEPT !.called = TRUE,
                    !.range = calculateDateRange(probe.periodType, probe.periodValue,
                                                 now, serverZone)]
    /\ UNCHANGED <<now, ticks, serverZone, active, req, hist, chat_messages, records, saved_charts>>

NextDateRange == CallCalculateDateRange

SpecDateRange == InitDateRange /\ [][NextDateRange]_vars

(***************************************************************************)
(* C15: the period resolver                                                *)
(***************************************************************************)
\* year, month and day of a YYYY-MM-DD text
YearOf(date)  == date \div 10000
MonthOf(date) == (date \div 100) % 100
DayOf(date)   == date % 100

\* the number of the day, counted from a fixed origin
DayNumber(date) ==
    LET y == YearOf(date)
        m == MonthOf(date)
        before == [k \in 1..12 |->
                     IF k = 1 THEN 0 ELSE IF k = 2 THEN 31
                     ELSE 59 + (IF IsLeap(y) THEN 1 ELSE 0)
                          + (CASE k = 3 -> 0 [] k = 4 -> 31 [] k = 5 -> 61 [] k = 6 -> 92
                               [] k = 7 -> 122 [] k = 8 -> 153 [] k = 9 -> 184
                               [] k = 10 -> 214 [] k = 11 -> 245 [] k = 12 -> 275)]
    IN  365 * (y - 1) + ((y - 1) \div 4) - ((y - 1) \div 100) + ((y - 1) \div 400)
          + before[m] + DayOf(date)

\* the months elapsed since year 0
MonthNumber(date) == 12 * YearOf(date) + MonthOf(date)

\* C15: for periodType day, week, month or year and a non-negative integer
\* periodValue the resolver returns toDate, the calendar date of now, and
\* fromDate, now minus periodValue units (a month or year that is too short
\* for the day of now ends the step on its last day), so fromDate <= toDate;
\* for any other periodType it returns null.
C15_DateRange ==
    probe.fn = "calculateDateRange" /\ probe.called =>
        LET n    == probe.periodValue
            to   == probe.range.toDate
            from == probe.range.fromDate
        IN  IF probe.periodType \in {"day", "week", "month", "year"}
            THEN /\ probe.range.ok
                 /\ to = FormatDate(ZoneDate(now, serverZone))
                 /\ from <= to
                 /\ probe.periodType = "day" => DayNumber(to) - DayNumber(from) = n
                 /\ probe.periodType = "week" => DayNumber(to) - DayNumber(from) = 7 * n
                 /\ probe.periodType = "month" =>
                      /\ MonthNumber(to) - MonthNumber(from) = n
                      /\ DayOf(from) = Min(DayOf(to), DaysInMonth(YearOf(from), MonthOf(from)))
                 /\ probe.periodType = "year" =>
                      /\ YearOf(to) - YearOf(from) = n
                      /\ MonthOf(from) = MonthOf(to)
                      /\ DayOf(from) = Min(DayOf(to), DaysInMonth(YearOf(from), MonthOf(from)))
            ELSE ~probe.range.ok

\* one week back over the end of a leap February, and one month back from
\* the 31st into a month of 29 days
C15_Witness ==
    /\ probe.fn = "calculateDateRange" /\ probe.called
    /\ \/ /\ probe.periodType = "week" /\ probe.periodValue = 1
          /\ probe.range.toDate = 20240301 /\ probe.range.fromDate = 20240223
       \/ /\ probe.periodType = "month" /\ probe.periodValue = 1
          /\ probe.range.toDate = 20240331 /\ probe.range.fromDate = 20240229

(***************************************************************************)
(* The classification call of a request settles, for every message of up   *)
(* to MaxWords words.                                                      *)
(***************************************************************************)
\* the words of a message: the markers of the fallback classifier, some of
\* them in capitals, and a word that is no marker
FallbackWords ==
    { "oneul", "today", "TODAY", "eoje", "yesterday", "YESTERDAY", "ju", "week", "WEEK",
      "dal", "wol", "month", "MONTH", "bunseok", "chateu", "geuraepeu", "girok", "deiteo",
      "gibun", "annyeong" }

WaitingForIntent(trimmed) ==
    [ InitReq EXCEPT
        !.pc = "intent",
        !.message = JsString(trimmed),
        !.body_user_id = JsString(<<"u1">>),
        !.user_id = <<"u1">>,
        !.trimmed = trimmed,
        !.trace = <<"call intent">> ]

InitFallback ==
    /\ now = [date |-> <<2024, 3, 31>>, hour |-> 2]
    /\ ticks = 0
    /\ serverZone = KoreaOffset
    /\ active = {"r1"}
    /\ \E trimmed \in SeqsUpTo(FallbackWords, MaxWords) \ { <<>> } :
            req = [r \in Reqs |-> IF r = "r1" THEN WaitingForIntent(trimmed) ELSE InitReq]
    /\ hist = InitHist
    /\ probe = NoProbe
    /\ chat_messages = <<>>
    /\ records = RecordsTable
    /\ saved_charts = FullCharts

NextFallback == \E r \in Reqs, reply \in IntentReplies : IntentReturns(r, reply)

SpecFallback == InitFallback /\ [][NextFallback]_vars

(***************************************************************************)
(* C16: the fallback classifier                                            *)
(***************************************************************************)
IntentFields ==
    { "isAnalysisRequest", "needsRecords", "needsChatHistory", "needsChart",
      "isSimpleGreeting", "timeRange", "topic", "analysisType", "periodType",
      "periodValue", "fromDate", "toDate" }

TodayWords     == {"oneul", "today", "TODAY"}
YesterdayWords == {"eoje", "yesterday", "YESTERDAY"}
WeekWords      == {"ju", "week", "WEEK"}
MonthWords     == {"dal", "wol", "month", "MONTH"}

HasWord(message, words) == \E i \in 1..Len(message) : message[i] \in words

\* the classification call of r failed or its reply did not parse
ClassifiedByFallback(r) == "intent" \in req[r].failed

\* C16: the fallback classifier is total: for every message it returns an
\* Intent with all twelve fields whose timeRange is chosen by the first
\* marker present in the order today, yesterday, week, month, and is recent
\* when there is none; a failed or unparseable classification call does not
\* fail the request, which goes on to its insert without a response.
C16_FallbackTotal ==
    \A r \in Reqs : ClassifiedByFallback(r) =>
        LET m == req[r].trimmed
            i == req[r].intent
        IN  /\ DOMAIN i = IntentFields
            /\ HasWord(m, TodayWords) => i.timeRange = "today"
            /\ (~HasWord(m, TodayWords) /\ HasWord(m, YesterdayWords)) => i.timeRange = "yesterday"
            /\ (~HasWord(m, TodayWords \cup YesterdayWords) /\ HasWord(m, WeekWords))
                  => i.timeRange = "last_week"
            /\ (~HasWord(m, TodayWords \cup YesterdayWords \cup WeekWords)
                  /\ HasWord(m, MonthWords)) => i.timeRange = "last_month"
            /\ ~HasWord(m, TodayWords \cup YesterdayWords \cup WeekWords \cup MonthWords)
                  => i.timeRange = "recent"
            /\ req[r].pc = "insert" =>
                  /\ req[r].responses = <<>>
                  /\ req[r].trace = <<"call intent", "insert chat_messages">>

\* the message names yesterday before today and the fallback says today
C16_Witness ==
    \E r \in Reqs :
        /\ ClassifiedByFallback(r)
        /\ req[r].pc = "insert"
        /\ req[r].trimmed = <<"eoje", "TODAY">>
        /\ req[r].intent.timeRange = "today"

(***************************************************************************)
(* C17: the ChatMessage row of a request                                   *)
(***************************************************************************)
\* how often the event occurs in the trace
CountOf(trace, event) == Cardinality({ i \in 1..Len(trace) : trace[i] = event })

RowsOf(r) == { i \in 1..Len(chat_messages) : chat_messages[i].id = r }

\* r passed validation and its classification has returned
Accepted(r) == req[r].pc \notin {"idle", "intent"} /\ req[r].trimmed # <<>>

TimeRanges == {"today", "yesterday", "last_week", "last_month", "recent", "custom"}

\* an object whose timeRange is one of the six values and whose custom
\* analysis carries both dates
SchemaValid(intent, isNull) ==
    /\ ~isNull
    /\ intent.timeRange \in TimeRanges
    /\ intent.analysisType = "custom" =>
          intent.fromDate # NullDate /\ intent.toDate # NullDate

\* C18: every Intent handed on by the Intent Classifier is schema-valid: an
\* object with the Intent fields, timeRange one of today, yesterday,
\* last_week, last_month, recent and custom, and both dates present when
\* analysisType is custom; an external output that is not is replaced by the
\* fallback classifier's output.
C18_IntentSchemaValid ==
    \A r \in Reqs :
        Accepted(r) =>
            /\ SchemaValid(req[r].intent, req[r].intentIsNull)
            /\ (req[r].intent # simpleFallbackAnalysis(req[r].trimmed) \/ req[r].intentIsNull)
                  => ~ClassifiedByFallback(r)

(***************************************************************************)
(* C19: the two composer paths                                             *)
(***************************************************************************)
\* the needs-data decision of r has been taken
Decided(r) ==
    req[r].insertError = "null" /\ req[r].pc \notin {"idle", "intent", "insert", "needsData"}

\* C19: for each accepted request exactly one of the two composer paths
\* runs, never both and never neither; when the needs-data call fails or its
\* reply is not parseable JSON the data path is taken iff intent.needsRecords
\* or intent.isAnalysisRequest is true.
C19_ExactlyOnePath ==
    \A r \in Reqs :
        /\ ~ (Occurs(req[r].trace, {"call reply"})
                /\ Occurs(req[r].trace, {"select records", "call analysis"}))
        /\ Decided(r) =>
            /\ req[r].path \in {"simple", "data"}
            /\ req[r].path = "simple" <=> TookSimplePath(r)
            /\ "needsData" \in req[r].failed =>
                 (req[r].path = "data" <=>
                    (req[r].intent.needsRecords \/ req[r].intent.isAnalysisRequest))

(***************************************************************************)
(* C20: when a chart is made and saved                                     *)
(***************************************************************************)
\* r took the data path, fetched rows and its intent asks for a chart
ChartCase(r) == req[r].path = "data" /\ req[r].rows # <<>> /\ req[r].intent.needsChart

\* C20: the Chart Synthesizer runs, and a saved_charts row is inserted, only
\* in requests that took the data path, fetched a non-empty row list and
\* have needsChart true; a chart is saved only when synthesis produced a real
\* chart, not the noData descriptor; in every other successful reply
\* chartData is null or the noData descriptor and no saved chart is created.
C20_ChartOnlyOnDataPath ==
    /\ [] (\A r \in Reqs :
            /\ Occurs(req[r].trace, {"generate chart", "insert saved_charts"}) => ChartCase(r)
            /\ Occurs(req[r].trace, {"insert saved_charts"}) =>
                 req[r].chartData.hasData /\ ~req[r].chartData.noData
            /\ (Len(req[r].responses) = 1 /\ req[r].responses[1].status = 200 /\ ~ChartCase(r)) =>
                 /\ req[r].responses[1].chartData \in {NullChart, NoDataChart}
                 /\ ~Occurs(req[r].trace, {"insert saved_charts"}))
    /\ [][ Len(saved_charts') > Len(saved_charts) =>
             \E r \in Reqs :
                /\ req[r].pc = "saveChart"
                /\ ChartCase(r)
                /\ req[r].chartData.hasData
                /\ saved_charts'[Len(saved_charts')].user_id = req[r].user_id ]_vars

\* a request was answered with a real chart and its chart is in the table
C20_Witness ==
    \E r \in Reqs :
        /\ ChartCase(r)
        /\ req[r].pc = "done"
        /\ Len(req[r].responses) = 1
        /\ req[r].responses[1].chartData.hasData
        /\ req[r].cleanup = "ok"
        /\ \E i \in 1..Len(saved_charts) :
             /\ saved_charts[i].id = MaxCharts + 1
             /\ saved_charts[i].user_id = req[r].user_id

(***************************************************************************)
(* C21: the zone of the dates                                              *)
(***************************************************************************)
\* an intent for today
TodayIntent == [NoIntent EXCEPT !.timeRange = "today"]

\* C21: all calendar dates derived from the current time are computed in one
\* reference time zone, so that at every instant the toDate of the
\* Date-Range Resolver equals the calendar date of the 'today' window of the
\* Data Fetcher.
C21_OneReferenceZone ==
    (probe.fn = "calculateDateRange" /\ probe.called /\ probe.range.ok) =>
        probe.range.toDate = getDataWindow(TodayIntent, now, serverZone).toDate

(***************************************************************************)
(* C22: the greeting flag of the fallback classifier                       *)
(***************************************************************************)
AnalysisWords == {"bunseok", "chateu", "geuraepeu"}
RecordWords   == {"girok", "deiteo"}
FeelingWords  == {"gibun"}
MarkerWords   == TodayWords \cup YesterdayWords \cup WeekWords \cup MonthWords

\* C22 as claimed: the fallback classifier sets isSimpleGreeting exactly
\* when the lowercased message contains none of the analysis, chart and graph
\* terms, none of the record and data terms, none of the day, week and month
\* markers and no mention of a feeling.
C22_Original ==
    \A r \in Reqs : ClassifiedByFallback(r) =>
        (req[r].intent.isSimpleGreeting <=>
            ~HasWord(req[r].trimmed,
                     AnalysisWords \cup RecordWords \cup MarkerWords \cup FeelingWords))

\* C22 as the code has it: the fallback classifier sets isSimpleGreeting
\* exactly when the lowercased message contains none of the analysis, chart
\* and graph terms, none of the record and data terms and no mention of a
\* feeling; the day, week and month markers play no part.
C22_GreetingFlag ==
    \A r \in Reqs : ClassifiedByFallback(r) =>
        (req[r].intent.isSimpleGreeting <=>
            ~HasWord(req[r].trimmed, AnalysisWords \cup RecordWords \cup FeelingWords))

\* a message that names today and nothing else is flagged as a greeting
C22_Witness ==
    \E r \in Reqs :
        /\ ClassifiedByFallback(r)
        /\ req[r].trimmed = <<"oneul">>
        /\ req[r].intent.isSimpleGreeting

(***************************************************************************)
(* generateEmotionChart called for each chart type on every list of up to  *)
(* MaxShapeRows rows, in any order of their dates                          *)
(***************************************************************************)
MaxShapeRows == 3

\* rows of two days with two fatigue values, with and without an emotion,
\* and a row that the filter drops
ShapeRows ==
    { Record(date, fatigue, emotion) :
        date \in {20240101, 20240315}, fatigue \in {3, 5}, emotion \in {"", "sad", "happy"} }
    \cup { Record(20240330, NullFatigue, "sad") }

\* a question for each of line, bar, pie and radar
ShapeQuestions == { <<"gibun">>, <<"bunpo">>, <<"biyul">>, <<"bigyo">> }

InitChartShape ==
    /\ now = [date |-> <<2024, 3, 31>>, hour |-> 2]
    /\ ticks = 0
    /\ serverZone = KoreaOffset
    /\ active = {}
    /\ req = [r \in Reqs |-> InitReq]
    /\ hist = InitHist
    /\ chat_messages = <<>>
    /\ records = RecordsTable
    /\ saved_charts = FullCharts
    /\ \E emotionData \in SeqsUpTo(ShapeRows, MaxShapeRows), question \in ShapeQuestions :
          probe = [NoProbe EXCEPT !.fn = "generateEmotionChart",
                                  !.emotionData = emotionData, !.question = question]

SpecChartShape == InitChartShape /\ [][NextChartRows]_vars

(***************************************************************************)
(* C23: chart shaping                                                      *)
(***************************************************************************)
\* the label of a row in a bar, pie or radar chart
LabelOf(item) == IF item.emotion = "" THEN NoEmotionLabel ELSE item.emotion

\* how many valid rows have the date and the fatigue
PointsIn(rows, date, fatigue) ==
    Cardinality({ i \in 1..Len(rows) : rows[i].date = date /\ rows[i].fatigue = fatigue })

\* how many points of the chart have the date and the fatigue
PointsOf(chart, date, fatigue) ==
    Cardinality({ i \in 1..Len(chart.labels) :
                    chart.labels[i] = date /\ chart.values[i] = fatigue })

RECURSIVE SumSeq(_)
SumSeq(s) == IF s = <<>> THEN 0 ELSE s[1] + SumSeq(Tail(s))

\* C23: chart shaping preserves the valid rows.  A line chart has one point
\* per valid row, ordered by date ascending, whose value is the fatigue of
\* the row.  A bar, pie or radar chart has one label per distinct emotion of
\* the valid rows (rows without an emotion share one bucket), each count is
\* the number of valid rows with the label and the counts sum to the number
\* of valid rows; bar and pie of the same rows have the same labels and counts.
C23_ShapingPreservesRows ==
    (probe.fn = "generateEmotionChart" /\ probe.called /\ probe.chart.hasData) =>
        LET valid == probe.validData
            chart == probe.chart
        IN  /\ Len(chart.labels) = Len(chart.values)
            /\ chart.type = "line" =>
                 /\ Len(chart.labels) = Len(valid)
                 /\ \A i \in 1..(Len(chart.labels) - 1) : chart.labels[i] <= chart.labels[i + 1]
                 /\ \A i \in 1..Len(valid) :
                      PointsOf(chart, valid[i].date, valid[i].fatigue)
                         = PointsIn(valid, valid[i].date, valid[i].fatigue)
            /\ chart.type \in {"bar", "pie", "radar"} =>
                 /\ \A i, j \in 1..Len(chart.labels) : chart.labels[i] = chart.labels[j] => i = j
                 /\ { chart.labels[i] : i \in 1..Len(chart.labels) }
                      = { LabelOf(valid[i]) : i \in 1..Len(valid) }
                 /\ \A k \in 1..Len(chart.labels) :
                      chart.values[k] =
                         Cardinality({ i \in 1..Len(valid) : LabelOf(valid[i]) = chart.labels[k] })
                 /\ SumSeq(chart.values) = Len(valid)
            /\ generateBarChart(valid).labels = generatePieChart(valid).labels
            /\ generateBarChart(valid).values = generatePieChart(valid).values
            /\ chart.type \in {"line", "bar", "pie", "radar"}

\* a line chart of three rows that came in out of date order, and a bar
\* chart whose rows without an emotion share a bucket of two
C23_Witness ==
    /\ probe.fn = "generateEmotionChart" /\ probe.called
    /\ \/ /\ probe.chart.type = "line"
          /\ probe.emotionData = << Record(20240315, 5, "sad"), Record(20240101, 3, ""),
                                    Record(20240315, 3, "happy") >>
          /\ probe.chart.labels = <<20240101, 20240315, 20240315>>
          /\ probe.chart.values = <<3, 5, 3>>
       \/ /\ probe.chart.type = "bar"
          /\ probe.emotionData = << Record(20240315, 5, ""), Record(20240101, 3, "sad"),
                                    Record(20240101, 5, "") >>
          /\ probe.chart.labels = <<NoEmotionLabel, "sad">>
          /\ probe.chart.values = <<2, 1>>

(***************************************************************************)
(* GET /chat/history over stored conversations: the table holds up to      *)
(* MaxHistoryRows messages when the request arrives, some of them of       *)
(* another user.                                                           *)
(***************************************************************************)
MaxHistoryRows == 22

\* the places of the table where a message of another user may be
OtherUserPlaces == {1, 12, 22}

\* the message stored as number i
StoredMessage(i, user_id) ==
    [id |-> "r1", user_id |-> user_id, user_chat |-> <<"annyeong">>,
     ai_answer |-> <<"reply">>, created_at |-> i]

\* a table of n messages whose rows at the places are of the other user
StoredMessages(n, places) ==
    [i \in 1..n |-> StoredMessage(i, IF i \in places THEN <<"u2">> ELSE <<"u1">>)]

InitHistory ==
    /\ now \in StartInstants
    /\ ticks = 0
    /\ serverZone = KoreaOffset
    /\ active = {}
    /\ req = [r \in Reqs |-> InitReq]
    /\ hist = InitHist
    /\ probe = NoProbe
    /\ \E n \in 0..MaxHistoryRows, places \in SUBSET OtherUserPlaces :
          chat_messages = StoredMessages(n, places)
    /\ records = RecordsTable
    /\ saved_charts = FullCharts

SpecHistory == InitHistory /\ [][NextHistory]_vars

(***************************************************************************)
(* C24: the history returned                                               *)
(***************************************************************************)
\* the rows of the user in the table
RowsOfUser(table, user_id) == { table[i] : i \in { k \in 1..Len(table) : table[k].user_id = user_id } }

\* the rows of the set that have at most n - 1 later rows in the set
MostRecent(rows, n) ==
    { row \in rows : Cardinality({ other \in rows : other.created_at > row.created_at }) < n }

\* C24: GET /chat/history with a user id returns that user's 20 most recent
\* chat messages (the 20 rows with the latest created_at, or all of them when
\* there are 20 or fewer), and count is the number of rows returned.
C24_MostRecentHistory ==
    (hist.pc = "done" /\ hist.responses # <<>> /\ hist.responses[1].status = 200) =>
        LET response == hist.responses[1]
        IN  /\ { response.chatHistory[i] : i \in 1..Len(response.chatHistory) }
                 = MostRecent(RowsOfUser(chat_messages, hist.user_id.text), HistoryLimit)
            /\ response.count = Len(response.chatHistory)

(***************************************************************************)
(* POST /chat when every awaited call settles: each await of a request     *)
(* resolves or rejects, so a request that waits takes its next step.       *)
(***************************************************************************)
\* the awaited call of the request settles, one way or another
AwaitSettles(r) ==
    \/ \E reply \in IntentReplies : IntentReturns(r, reply)
    \/ \E insertError \in BOOLEAN : InsertReturns(r, insertError)
    \/ \E reply \in NeedsDataReplies : NeedsDataReturns(r, reply)
    \/ \E reply \in ReplyCallReplies : SimpleReturns(r, reply)
    \/ \E queryError \in BOOLEAN : FetchReturns(r, queryError)
    \/ \E reply \in ReplyCallReplies : AnalyzeReturns(r, reply)
    \/ \E error \in BOOLEAN : SaveChartInsertReturns(r, error)
    \/ \E error \in BOOLEAN : CleanupCountReturns(r, error)
    \/ \E error \in BOOLEAN : CleanupSelectReturns(r, error)
    \/ \E error \in BOOLEAN : CleanupDeleteReturns(r, error)

SpecChatLive == Init /\ [][NextChat]_vars /\ \A r \in Reqs : WF_vars(AwaitSettles(r))

(***************************************************************************)
(* C25: one response per request                                           *)
(***************************************************************************)
\* the request has arrived
Arrived(r) == req[r].pc # "idle"

\* C25: every POST /chat, accepted or rejected, receives exactly one HTTP
\* response along every path (validation failure, insert failure, the reply
\* without data, the data path with or without rows, any call failing): a
\* response is eventually sent and no second response is ever sent.
C25_ExactlyOneResponse ==
    /\ [](\A r \in Reqs : Len(req[r].responses) <= 1)
    /\ \A r \in Reqs : Arrived(r) ~> (Len(req[r].responses) = 1)

\* a request answered 500 after its classification came back null, and one
\* answered 200 after the cleanup of its saved chart failed
C25_Witness ==
    \E r \in Reqs :
        /\ req[r].pc = "done"
        /\ Len(req[r].responses) = 1
        /\ \/ req[r].intentIsNull /\ req[r].responses[1].status = 500
           \/ /\ req[r].responses[1].status = 200
              /\ req[r].cleanup = "error"

(***************************************************************************)
(* C26: the text of a reply                                                *)
(***************************************************************************)
\* the texts a reply may carry: the text of the model or a fixed message
ReplyTexts == (ModelContents \ {""})
                \cup {SimpleFallbackMessage, AnalysisFallbackMessage, NoRecordsMessage}

\* C26: every 200 reply carries a non-empty aiResponse text, the reply of the
\* model or, when the composition call fails or returns no content, a fixed
\* fallback text; the same holds for the ai_answer written to the row.
C26_ReplyTextNonEmpty ==
    \A r \in Reqs :
        (req[r].responses # <<>> /\ req[r].responses[1].status = 200) =>
            /\ req[r].responses[1].aiResponse \in ReplyTexts
            /\ req[r].update.state # "none" => req[r].update.ai_answer \in ReplyTexts

(***************************************************************************)
(* C27: what the cleanup deletes                                           *)
(***************************************************************************)
\* the number of saved charts of the user
ChartCount(table, user_id) == Len(ChartsOf(table, user_id))

\* C27: under any interleaving of concurrent saveChart calls for the same
\* user the cleanup deletes a chart only while the user has more than 20: a
\* step that deletes charts of a user never brings the count of the user
\* below 20, so it never deletes more than the excess.
C27_DeletesOnlyExcess ==
    [][ \A user_id \in UserIds :
          ChartCount(saved_charts', user_id) < ChartCount(saved_charts, user_id)
              => ChartCount(saved_charts', user_id) >= MaxCharts ]_vars

(***************************************************************************)
(* C28: the dateRange of a reply                                           *)
(***************************************************************************)
\* midnight UTC of the formatted date
InstantOf(date) == [date |-> <<YearOf(date), MonthOf(date), DayOf(date)>>, hour |-> 0]

\* the window is the one the display describes: the single day, the pair of
\* dates, or the last periodValue periodType up to the end of the window
Denotes(display, window) ==
    \/ /\ display.kind = "day"
       /\ window.fromDate = display.fromDate
       /\ window.toDate = display.fromDate
    \/ /\ display.kind = "pair"
       /\ window.fromDate = display.fromDate
       /\ window.toDate = display.toDate
    \/ /\ display.kind = "recent"
       /\ LET range == calculateDateRange(display.periodType, display.periodValue,
                                          InstantOf(window.toDate), 0)
          IN  range.ok /\ window.fromDate = range.fromDate

\* the request took the data path and was answered 200
RepliedWithData(r) ==
    /\ req[r].path = "data"
    /\ req[r].responses # <<>>
    /\ req[r].responses[1].status = 200

\* C28: on the data path the dateRange of the reply describes the window
\* that getData queried: for every intent the date or the pair of dates that
\* getDateRangeDisplay shows is fromDate/toDate of getData's window; a today
\* or yesterday intent reports exactly that single day.
C28_DateRangeIsWindow ==
    \A r \in Reqs :
        RepliedWithData(r) => Denotes(req[r].responses[1].dateRange, req[r].window)

(***************************************************************************)
(* C29: the period stored with a chart                                     *)
(***************************************************************************)
\* the row that the step of request r added to saved_charts
SavedBy(r) == saved_charts'[Len(saved_charts')]

\* the insert of saveChart of request r settles with a new row
SavesChart(r) ==
    /\ req[r].pc = "saveChart"
    /\ req'[r].pc # "saveChart"
    /\ Len(saved_charts') = Len(saved_charts) + 1

\* C29: period_start and period_end stored with a saved chart, and the start
\* date in its name, are fromDate and toDate of the window from which the
\* rows of the chart were fetched, for every intent, today and yesterday
\* intents included.
C29_PeriodIsWindow ==
    [][ \A r \in Reqs :
          SavesChart(r) =>
            /\ SavedBy(r).period_start = req[r].window.fromDate
            /\ SavedBy(r).period_end = req[r].window.toDate
            /\ SavedBy(r).chart_name = req[r].window.fromDate ]_vars

(***************************************************************************)
(* The fallback classifier followed to the window of getData: a request    *)
(* whose classification call fails, at any of the instants.                *)
(***************************************************************************)
\* a word of every group the fallback looks for, and one of none
WindowWords == { "oneul", "eoje", "ju", "dal", "bunseok", "girok", "annyeong" }

\* the classification call throws or its content is not JSON
FailedReplies == { reply \in IntentReplies : reply.kind \in {"throw", "malformed"} }

InitFallbackFetch ==
    /\ now \in FetchInstants
    /\ ticks = 0
    /\ serverZone \in ServerZones
    /\ active = {"r1"}
    /\ \E trimmed \in SeqsUpTo(WindowWords, MaxWords) \ { <<>> } :
            req = [r \in Reqs |-> IF r = "r1" THEN WaitingForIntent(trimmed) ELSE InitReq]
    /\ hist = InitHist
    /\ probe = NoProbe
    /\ chat_messages = <<>>
    /\ records = RecordsTable
    /\ saved_charts = FullCharts

NextFallbackFetch ==
    \/ \E r \in Reqs, reply \in FailedReplies : IntentReturns(r, reply)
    \/ \E r \in Reqs, insertError \in BOOLEAN : InsertReturns(r, insertError)
    \/ \E r \in Reqs, reply \in NeedsDataReplies : NeedsDataReturns(r, reply)

SpecFallbackFetch == InitFallbackFetch /\ [][NextFallbackFetch]_vars

(***************************************************************************)
(* C30: the windows of fallback intents                                    *)
(***************************************************************************)
\* a window of the one day
OneDay(day) == [threw |-> FALSE, fromDate |-> FormatDate(day), toDate |-> FormatDate(day)]

\* the window from a month before the day to the day
MonthUpTo(day) ==
    [threw |-> FALSE, fromDate |-> FormatDate(SubtractMonths(day, 1)), toDate |-> FormatDate(day)]

\* C30: for every Intent of the fallback classifier fromDate and toDate are
\* null and analysisType is never 'custom', so the window of getData is one
\* of exactly three: today only, yesterday only, or from one month before now
\* to now (now being the date the resolver reads); the fallback's timeRange
\* last_week, last_month and recent all lead to the same one-month window.
C30_FallbackWindows ==
    \A r \in Reqs : ClassifiedByFallback(r) =>
        LET intent == req[r].intent
            today  == koreaTime(now)
        IN  /\ intent.fromDate = NullDate
            /\ intent.toDate = NullDate
            /\ intent.analysisType # "custom"
            /\ intent.timeRange \in {"today", "yesterday", "last_week", "last_month", "recent"}
            /\ req[r].path = "data" =>
                 /\ intent.timeRange = "today" => req[r].window = OneDay(today)
                 /\ intent.timeRange = "yesterday" => req[r].window = OneDay(SubtractDays(today, 1))
                 /\ intent.timeRange \in {"last_week", "last_month", "recent"}
                       => req[r].window = MonthUpTo(ZoneDate(now, serverZone))

\* a message about the week whose window is the month up to the leap day,
\* and one about yesterday whose window is the last day of February
C30_Witness ==
    \E r \in Reqs :
        /\ ClassifiedByFallback(r)
        /\ req[r].path = "data"
        /\ now = [date |-> <<2024, 3, 31>>, hour |-> 2]
        /\ \/ /\ req[r].intent.timeRange = "last_week"
              /\ req[r].window = [threw |-> FALSE, fromDate |-> 20240229, toDate |-> 20240331]
           \/ /\ req[r].intent.timeRange = "yesterday"
              /\ req[r].window = [threw |-> FALSE, fromDate |-> 20240330, toDate |-> 20240330]

====
